---- MODULE Spec2Model ----
(***************************************************************************)
(* Model of the rate-limit module of the lock SDK                          *)
(* (packages/modules/rate-limit): the five admission strategies, the       *)
(* in-process MemoryStore they share, the DDoSProtection analyzer with its *)
(* blacklist, and the orchestrator (rateLimit.check with handleFailure)    *)
(* that composes the key, derives the effective config and calls them.     *)
(* Specification Spec runs the strategies and the analyzer directly,       *)
(* specification Orchestrator runs requests through the orchestrator,      *)
(* specification Stores drives MemoryStore and RedisStore side by side,    *)
(* call by call, specification Concurrent runs concurrent requests         *)
(* through the construction of the store, and specification Doubles runs   *)
(* the token bucket with the arithmetic of the IEEE doubles.               *)
(*                                                                         *)
(* Conventions                                                             *)
(*  - Time is Date.now() in milliseconds.  One call of check / analyze /   *)
(*    isBlacklisted is one step taken at the clock value `now`; calls on   *)
(*    one key are sequential.                                              *)
(*  - JavaScript numbers that can be fractional (record.count under the    *)
(*    leaky bucket, record.tokens) are kept exactly, as integers scaled by *)
(*    the window length: a stored value v stands for v / windowMs.  The    *)
(*    model computes with exact rationals where the code computes with     *)
(*    IEEE doubles, except for the threat score, whose sum of tier         *)
(*    contributions carries the rounding error of the doubles where it     *)
(*    decides a comparison with a level threshold (DoubleError), and for   *)
(*    the token bucket of specification Doubles, whose record.tokens is a  *)
(*    binary64 value and whose every operation rounds as the double does.  *)
(*  - A value a store holds is tagged with its JavaScript type (Num, Str): *)
(*    the Lua script of RedisStore stores its arguments as strings.        *)
(*  - An await of a remote call is a point where another call may run; a   *)
(*    synchronous method body is one step.                                 *)
(*  - A record field that is undefined in JavaScript and read through      *)
(*    `x || default` is stored as that default (history <<>>, tokens 0,    *)
(*    ddosScore 0).                                                        *)
(*  - The LRU cache behind MemoryStore is modelled by its time-to-live     *)
(*    (an entry is gone once its age exceeds ttl; set() restarts the age). *)
(*    Its capacity (10000 entries) is never reached by the key sets used.  *)
(***************************************************************************)
EXTENDS Integers, Sequences, FiniteSets, TLC

\* ------------------------------------------------------------------------
\* Bounds of the exploration
\* ------------------------------------------------------------------------
\* checks per run in the freely interleaved scenarios
MaxChecks == 5
\* clock advances per run in the freely interleaved scenarios
MaxAdvances == 3
\* checks of the token bucket run with limit 10 (exhaustion takes 11)
TokenChecks == 13
\* checks of the evenly spread adaptive run (50 requests fill the window)
SpreadChecks == 52
\* checks of the paced runs the analyzer watches (tier 3 needs 12 entries)
AnalyzerChecks == 13
\* direct calls of analyze and isBlacklisted per run
MaxProbes == 2
\* requests per run in the freely interleaved orchestrator runs
MaxRequests == 3
\* requests of the run in which some requests carry no headers object
BareChecks == 7
\* requests of a flood that stays above the thresholds of the analyzer
FloodChecks == 8
\* store calls and clock ticks per run of the two stores side by side
MaxCalls == 3
\* remote calls that fail per run of the two stores
MaxFaults == 1
\* concurrent requests
MaxFlights == 3

\* ------------------------------------------------------------------------
\* Generic helpers
\* ------------------------------------------------------------------------
Max2(a, b) == IF a >= b THEN a ELSE b

Min2(a, b) == IF a <= b THEN a ELSE b

\* Math.ceil(a / b) for a >= 0, b > 0
CeilDiv(a, b) == (a + b - 1) \div b

\* Array.prototype.filter(time => time >= since)
RECURSIVE FilterSince(_, _)
FilterSince(h, since) ==
  IF h = <<>> THEN <<>>
  ELSE IF Head(h) >= since THEN <<Head(h)>> \o FilterSince(Tail(h), since)
       ELSE FilterSince(Tail(h), since)

\* Math.min(...history) of a non-empty array
RECURSIVE SeqMin(_)
SeqMin(h) ==
  IF Len(h) = 1 THEN h[1] ELSE Min2(Head(h), SeqMin(Tail(h)))

\* ------------------------------------------------------------------------
\* Configurations and traffic scenarios
\* ------------------------------------------------------------------------
NoAdaptive == [enabled |-> FALSE, elevated |-> 0, high |-> 0, extreme |-> 0]

NoDDoS == [enabled |-> FALSE, requestRateThreshold |-> 0, burstThreshold |-> 0, banDurationMs |-> 0]

\* RateLimitConfig (strategy, limit, windowMs, memoryOptions.ttl, adaptive,
\* ddosPrevention) plus the traffic the run offers: the key the requests
\* carry, `delays` are the steps by which the clock may advance between
\* calls, `maxChecks` caps the checks of the run; `paced` traffic makes one
\* check per clock value and moves the clock by the cyclic pattern `pace`;
\* `analyzer` runs call DDoSProtection directly.
Scenario(strategy, limit, windowMs, ttl, delays, maxChecks) ==
  [strategy |-> strategy, limit |-> limit, windowMs |-> windowMs, ttl |-> ttl,
   adaptive |-> NoAdaptive, ddos |-> NoDDoS, analyzer |-> FALSE,
   key |-> <<"a">>, byIp |-> FALSE, delays |-> delays, paced |-> FALSE, pace |-> <<>>,
   maxChecks |-> maxChecks,
   storage |-> "memory", redis |-> FALSE, headers |-> TRUE, standardHeaders |-> TRUE,
   ipHeaders |-> <<"x-forwarded-for">>, useRemoteAddress |-> TRUE,
   resources |-> <<>>, countryLimits |-> <<>>, failBehavior |-> "open",
   keyGenerator |-> FALSE,
   requests |-> {}]

FixedScenarios ==
  { Scenario("fixed-window", l, 10, 20, {4, 6, 11}, MaxChecks) : l \in 1..3 }
  \cup { Scenario("fixed-window", 2, 1000, 3600000, {400, 600, 1001}, MaxChecks) }

SlidingScenarios ==
  { Scenario("sliding-window", l, 10, 20, {4, 6, 11}, MaxChecks) : l \in 1..2 }

TokenScenarios ==
  { Scenario("token-bucket", 10, 1000, 3600000, {50, 100}, TokenChecks) }
  \cup { Scenario("token-bucket", l, 4, 8, {1, 2, 5}, MaxChecks) : l \in {1, 3} }

LeakyScenarios ==
  { Scenario("leaky-bucket", l, 6, 12, {1, 3, 4, 7}, MaxChecks) : l \in 1..3 }

Thresholds(elevated, high, extreme) ==
  [enabled |-> TRUE, elevated |-> elevated, high |-> high, extreme |-> extreme]

AdaptiveScenarios ==
  { [Scenario("adaptive", l, 1000, 2000, {500, 1001}, MaxChecks)
       EXCEPT !.adaptive = Thresholds(1, 2, 3)] : l \in {2, 4, 10} }
  \cup { [Scenario("adaptive", 1, 200, 3600000, {100, 201}, MaxChecks)
            EXCEPT !.adaptive = Thresholds(3, 4, 30)] }
  \cup { [Scenario("adaptive", l, 10000, 3600000, {10001}, SpreadChecks)
            EXCEPT !.adaptive = Thresholds(3, 4, 30), !.paced = TRUE, !.pace = <<200>>]
         : l \in {5, 100} }
  \cup { Scenario("adaptive", 1, 10, 20, {4, 6, 11}, MaxChecks) }

DDoS(requestRateThreshold, burstThreshold, banDurationMs) ==
  [enabled |-> TRUE, requestRateThreshold |-> requestRateThreshold,
   burstThreshold |-> burstThreshold, banDurationMs |-> banDurationMs]

\* paced runs of 5 to 13 requests, 10 ms apart or alternating, which the
\* analyzer inspects once the traffic is over; with the rate thresholds 20
\* and 30 the runs stay below the threshold or below half of it, with the
\* burst threshold 20 they stay below that
AnalyzerScenarios ==
  { [Scenario(c[1], 20, 1000, 3600000, {10, 20}, c[3])
       EXCEPT !.ddos = DDoS(5, 3, 30), !.analyzer = TRUE, !.key = <<"a", ":", "r">>,
              !.byIp = c[4], !.paced = TRUE, !.pace = c[2]]
    : c \in {<<"fixed-window", <<10>>, 5, FALSE>>, <<"fixed-window", <<10>>, 6, FALSE>>,
             <<"fixed-window", <<10>>, 7, FALSE>>,
             <<"fixed-window", <<10>>, AnalyzerChecks, TRUE>>,
             <<"sliding-window", <<10, 14>>, AnalyzerChecks, FALSE>>,
             <<"sliding-window", <<10, 30>>, AnalyzerChecks, FALSE>>} }
  \cup { [Scenario("fixed-window", 2, 10, 20, {11}, 2) EXCEPT !.analyzer = TRUE] }
  \cup { [Scenario("fixed-window", 20, 1000, 3600000, {10, 20}, c[3])
            EXCEPT !.ddos = DDoS(c[1], c[2], 30), !.analyzer = TRUE,
                   !.key = <<"a", ":", "r">>, !.paced = TRUE, !.pace = <<10>>]
          : c \in {<<20, 3, 7>>, <<20, 3, AnalyzerChecks>>, <<30, 3, AnalyzerChecks>>,
                   <<5, 20, AnalyzerChecks>>} }

Scenarios ==
  FixedScenarios \cup SlidingScenarios \cup TokenScenarios \cup LeakyScenarios
  \cup AdaptiveScenarios \cup AnalyzerScenarios

\* ------------------------------------------------------------------------
\* State
\* ------------------------------------------------------------------------
VARIABLES
  scn,        \* the configuration the module was created with (+ traffic)
  now,        \* Date.now()
  cache,      \* MemoryStore.cache : key -> entry
  blacklist,  \* DDoSProtection.blacklist : ip -> expiry (0 = no entry)
  last,       \* result of the most recent strategy check
  prev,       \* result of the strategy check before it
  threat,     \* result of the most recent analyze
  prevThreat, \* result of the analyze before it
  blq,        \* result of the most recent isBlacklisted, with the ip's latest
              \* critical classification and blacklist entry at that moment
  nChecks,    \* checks made so far
  nAdv,       \* free clock advances so far
  nProbes,    \* direct analyzer calls so far
  arrivals,   \* history variable: times of all checks of the key, in order
  win,        \* history variable: start of the accounting window the latest
              \* check falls in and the ordinal of that check in the window
  degraded,   \* history variable: denials at a non-normal escalation level
              \* since the key was last checked at the normal level
  critAt,     \* history variable: ip -> time of its latest critical
              \* classification by scoring (-1 = never)
  moduleStores, \* index.ts moduleStores: TRUE once the store of the config exists
  backendUp,  \* whether the remote backend of a redis store answers
  resp,       \* outcome of the request the orchestrator handled last
  served,     \* history variable: the requests for which a key was composed
  supplied,   \* history variable: the config as the caller supplied it
  memory,     \* a MemoryStore driven by store calls: key -> entry of its cache
  server,     \* the redis server behind a RedisStore driven by the same calls
  tasks,      \* the increment calls of the RedisStore that are in flight
  ret,        \* what the store call completed last returned on either store
  batch,      \* history variable: the increments begun since the stores were
              \* last idle, and the counts and history lengths at that moment
  touched,    \* history variable: key -> kind and time of its latest write
  spent,      \* store calls and clock ticks made and failures met so far
  instances,  \* the stores constructed by concurrent requests, in order
  registry,   \* index.ts moduleStores of those requests: the number of the
              \* instance registered for the config (0 = none)
  flights     \* the position of each concurrent request inside rateLimit.check

\* the state only the orchestrator touches
orchVars == <<moduleStores, backendUp, resp, served, supplied>>

\* the state of the two stores driven side by side
storeVars == <<memory, server, tasks, ret, batch, touched, spent>>

\* the state of the concurrent requests
flightVars == <<instances, registry, flights>>

\* the state of the strategy and analyzer runs, the clock apart
runVars ==
  <<scn, cache, blacklist, last, prev, threat, prevThreat, blq, nChecks, nAdv, nProbes,
    arrivals, win, degraded, critAt>>

vars ==
  <<scn, now, cache, blacklist, last, prev, threat, prevThreat, blq, nChecks, nAdv,
    nProbes, arrivals, win, degraded, critAt, orchVars, storeVars, flightVars>>

\* fixed-point unit: the stored number v stands for v / Scale
Scale == scn.windowMs

FP(n) == n * Scale

\* cache entry of an unknown key
Absent ==
  [present |-> FALSE, start |-> 0, count |-> 0, firstRequest |-> 0, lastRequest |-> 0,
   history |-> <<>>, tokens |-> 0, ddosScore |-> 0]

\* RateLimitRecord as stored; count and tokens in fixed point
Record(count, first, lastReq, history, tokens, ddosScore) ==
  [present |-> TRUE, start |-> 0, count |-> count, firstRequest |-> first,
   lastRequest |-> lastReq, history |-> history, tokens |-> tokens, ddosScore |-> ddosScore]

NoResult ==
  [op |-> "none", t |-> 0, passed |-> TRUE, remaining |-> 0, limit |-> 0, retry |-> 0,
   retryFinite |-> TRUE, reason |-> "", hadRecord |-> FALSE, found |-> 0, gap |-> 0,
   seq |-> 0, level |-> "normal", afterDenial |-> FALSE]

\* RateLimitResult, tagged with the strategy, the clock value of the call,
\* whether a record was found and the level it held (count, or tokens after
\* the refill; fixed point), the time since the previous check of the key,
\* the ordinal of the check, the escalation level it was evaluated at and
\* whether the check before it was denied
Result(op, passed, remaining, limit, retry, reason, hadRecord, found) ==
  [op |-> op, t |-> now, passed |-> passed, remaining |-> remaining, limit |-> limit,
   retry |-> retry, retryFinite |-> TRUE, reason |-> reason, hadRecord |-> hadRecord,
   found |-> found,
   gap |-> IF arrivals = <<>> THEN 0 ELSE now - arrivals[Len(arrivals)],
   seq |-> nChecks + 1, level |-> "normal",
   afterDenial |-> (last.op # "none" /\ ~last.passed)]

\* ------------------------------------------------------------------------
\* MemoryStore
\* ------------------------------------------------------------------------
\* LRUCache: an entry is stale once its age exceeds the ttl
Stale(e, t) == e.present /\ t - e.start > scn.ttl

\* a redis store whose backend does not answer: RedisStore catches the error
\* of every call, get answers null and set does nothing
StoreDown == scn.storage = "redis" /\ ~backendUp

\* MemoryStore.get, RedisStore.get
StoreGet(k, t) ==
  IF ~StoreDown /\ cache[k].present /\ ~Stale(cache[k], t) THEN cache[k] ELSE Absent

\* MemoryStore.set, RedisStore.set: stores the record and restarts its age
StoreSet(c, k, rec, t) ==
  IF StoreDown THEN c ELSE [c EXCEPT ![k] = [rec EXCEPT !.present = TRUE, !.start = t]]

\* MemoryStore.increment with value = 1: the record after the call
Increment(rec, t) ==
  IF ~rec.present
  THEN Record(FP(1), t, t, <<t>>, 0, 0)
  ELSE [rec EXCEPT !.count = @ + FP(1), !.lastRequest = t, !.history = Append(@, t)]

\* ------------------------------------------------------------------------
\* Fixed window
\* ------------------------------------------------------------------------
\* fixed.ts: now - record.firstRequest > windowMs
WindowExpired(rec, t, windowMs) == t - rec.firstRequest > windowMs

\* a reset that forgets to count the request that opens the window
FixedResetUncounted(t) == Record(FP(0), t, t, <<>>, 0, 0)

\* fixed.ts: the record that starts a new window
FixedReset(t) == Record(FP(1), t, t, <<>>, 0, 0)

\* an off-by-one comparison, record.count >= limit
FixedOverLimitInclusive(count, limit) == count >= FP(limit)

\* fixed.ts: record.count > limit
FixedOverLimit(count, limit) == count > FP(limit)

\* fixed.ts: timeRemaining
FixedTimeRemaining(rec, t, windowMs) == Max2(0, windowMs - (t - rec.firstRequest))

FixedWindowCheck(k, config) ==
  LET record == StoreGet(k, now)
      limit == config.limit
      windowMs == config.windowMs
  IN IF ~record.present \/ WindowExpired(record, now, windowMs)
     THEN /\ cache' = StoreSet(cache, k, FixedReset(now), now)
          /\ last' = Result("fixed-window", TRUE, limit - 1, limit, windowMs, "", record.present,
                           record.count)
     ELSE LET inc == Increment(StoreGet(k, now), now)
              timeRemaining == FixedTimeRemaining(inc, now, windowMs)
          IN /\ cache' = StoreSet(cache, k, inc, now)
             /\ last' = IF FixedOverLimit(inc.count, limit)
                        THEN Result("fixed-window", FALSE, 0, limit, timeRemaining,
                                    "RATE_LIMITED", TRUE, record.count)
                        ELSE Result("fixed-window", TRUE, Max2(0, limit - inc.count \div Scale),
                                    limit, timeRemaining, "", TRUE, record.count)

\* ------------------------------------------------------------------------
\* Sliding window
\* ------------------------------------------------------------------------
\* a window that drops the request made exactly windowMs ago
InWindowStrict(h, t, windowMs) == FilterSince(h, t - windowMs + 1)

\* the window a history is pruned to: entries with time >= now - windowMs
InWindow(h, t, windowMs) == FilterSince(h, t - windowMs)

\* sliding.ts: retry of a denial, resetTime > 0 ? resetTime : 1000
SlidingRetry(windowHistory, t, windowMs) ==
  LET resetTime == SeqMin(windowHistory) + windowMs - t
  IN IF resetTime > 0 THEN resetTime ELSE 1000

SlidingWindowCheck(k, config) ==
  LET record == StoreGet(k, now)
      limit == config.limit
      windowMs == config.windowMs
  IN IF ~record.present
     THEN /\ cache' = StoreSet(cache, k, Record(FP(1), now, now, <<now>>, 0, 0), now)
          /\ last' = Result("sliding-window", TRUE, limit - 1, limit, windowMs, "", FALSE, 0)
     ELSE LET windowHistory == InWindow(Append(record.history, now), now, windowMs)
              count == Len(windowHistory)
              rec == [record EXCEPT !.lastRequest = now, !.count = FP(count),
                                    !.history = windowHistory]
          IN /\ cache' = StoreSet(cache, k, rec, now)
             /\ last' = IF count > limit
                        THEN Result("sliding-window", FALSE, 0, limit,
                                    SlidingRetry(windowHistory, now, windowMs),
                                    "RATE_LIMITED", TRUE, record.count)
                        ELSE Result("sliding-window", TRUE, Max2(0, limit - count), limit,
                                    windowMs, "", TRUE, record.count)

\* ------------------------------------------------------------------------
\* Token bucket
\* ------------------------------------------------------------------------
\* timeElapsed * refillRate, refillRate = limit / windowMs, in fixed point
Refill(elapsed, limit, windowMs) == (elapsed * limit * Scale) \div windowMs

\* a bucket that is refilled beyond its capacity
TokenLevelUncapped(rec, t, limit, windowMs) ==
  rec.tokens + Refill(t - rec.lastRequest, limit, windowMs)

\* a bucket that is never refilled
TokenLevelNoRefill(rec, t, limit, windowMs) == Min2(FP(limit), rec.tokens)

\* fixed.ts: Math.min(maxTokens, (record.tokens || 0) + tokensToAdd)
TokenLevel(rec, t, limit, windowMs) ==
  Min2(FP(limit), rec.tokens + Refill(t - rec.lastRequest, limit, windowMs))

\* fixed.ts: Math.ceil((1 - record.tokens) / refillRate)
TokenRetry(tokens, limit, windowMs) == CeilDiv((FP(1) - tokens) * windowMs, Scale * limit)

TokenBucketCheck(k, config) ==
  LET record == StoreGet(k, now)
      maxTokens == config.limit
      windowMs == config.windowMs
  IN IF ~record.present
     THEN /\ cache' = StoreSet(cache, k, Record(0, now, now, <<>>, FP(maxTokens - 1), 0), now)
          /\ last' = Result("token-bucket", TRUE, maxTokens - 1, maxTokens, 0, "", FALSE, 0)
     ELSE LET tokens == TokenLevel(record, now, maxTokens, windowMs)
          IN IF tokens >= FP(1)
             THEN /\ cache' = StoreSet(cache, k,
                                [record EXCEPT !.tokens = tokens - FP(1), !.lastRequest = now,
                                               !.count = @ + FP(1)], now)
                  /\ last' = Result("token-bucket", TRUE, (tokens - FP(1)) \div Scale,
                                    maxTokens, 0, "", TRUE, tokens)
             ELSE /\ cache' = StoreSet(cache, k,
                                [record EXCEPT !.tokens = tokens, !.lastRequest = now], now)
                  /\ last' = Result("token-bucket", FALSE, 0, maxTokens,
                                    TokenRetry(tokens, maxTokens, windowMs),
                                    "RATE_LIMITED", TRUE, tokens)

\* ------------------------------------------------------------------------
\* Token bucket in binary64
\* ------------------------------------------------------------------------
\* The same check with the arithmetic of the doubles.  A non-negative double
\* is held exactly, as the natural number of units of 2^-75 it amounts to
\* (every double from 2^-23 up is a whole number of such units, and so are
\* the sums and differences of such doubles).  The number is written to the
\* base 2^15 = 32768, the least significant digit first and no zero digit
\* at the top, so that 1.0 is <<0, 0, 0, 0, 0, 1>>.  An operation of the
\* code is the exact operation followed by the rounding to 53 significant
\* bits, ties to even.

\* the number of bits of a whole number below 2^15
RECURSIVE BitLen(_)
BitLen(n) == IF n = 0 THEN 0 ELSE 1 + BitLen(n \div 2)

\* bit i of a, bit 1 the least significant
Bit(a, i) ==
  LET j == (i - 1) \div 15 + 1
  IN IF i < 1 \/ j > Len(a) THEN 0 ELSE (a[j] \div 2^((i - 1) % 15)) % 2

\* a * n + c for whole numbers n and c below 2^15
RECURSIVE MulSmall(_, _, _)
MulSmall(a, n, c) ==
  IF a = <<>>
  THEN (IF c = 0 THEN <<>> ELSE <<c>>)
  ELSE LET p == a[1] * n + c
       IN <<p % 32768>> \o MulSmall(Tail(a), n, p \div 32768)

\* a * 2^k
Shl(a, k) == [i \in 1..(k \div 15) |-> 0] \o MulSmall(a, 2^(k % 15), 0)

\* a + b: a carry enters a digit from the nearest digit below it that is
\* not passing a carry on, when that digit makes one
Add(a, b) ==
  LET len == Max2(Len(a), Len(b)) + 1
      digit(x, i) == IF i <= Len(x) THEN x[i] ELSE 0
      carry(i) == \E j \in 1..(i - 1) :
                    /\ digit(a, j) + digit(b, j) >= 32768
                    /\ \A k \in (j + 1)..(i - 1) : digit(a, k) + digit(b, k) = 32767
  IN SubSeq([i \in 1..len |->
               (digit(a, i) + digit(b, i) + (IF carry(i) THEN 1 ELSE 0)) % 32768], 1, len)

\* a - b for a >= b: a borrow enters a digit when the digits below it make
\* a smaller number in a than in b
Sub(a, b) ==
  LET len == Max2(Len(a), Len(b))
      digit(x, i) == IF i <= Len(x) THEN x[i] ELSE 0
      borrow(i) == \E j \in 1..(i - 1) :
                     /\ digit(a, j) < digit(b, j)
                     /\ \A k \in (j + 1)..(i - 1) : digit(a, k) = digit(b, k)
  IN SubSeq([i \in 1..len |->
               (32768 + digit(a, i) - digit(b, i) - (IF borrow(i) THEN 1 ELSE 0)) % 32768],
            1, len)

\* a < b
Less(a, b) ==
  \E i \in 1..Len(b) :
    /\ (IF i > Len(a) THEN 0 ELSE a[i]) < b[i]
    /\ \A j \in (i + 1)..Max2(Len(a), Len(b)) :
         (IF j > Len(a) THEN 0 ELSE a[j]) = (IF j > Len(b) THEN 0 ELSE b[j])

\* the double nearest to the exact value a: 53 significant bits are kept,
\* the rest is rounded to nearest, a tie to the even neighbour
Round53(a) ==
  LET digits == {i \in 1..Len(a) : a[i] # 0}
      top == IF digits = {} THEN 0 ELSE CHOOSE i \in digits : \A j \in digits : j <= i
      cut == 15 * (top - 1) + BitLen(a[top]) - 53
      kept == [i \in 1..top |->
                 IF 15 * i <= cut THEN 0
                 ELSE IF 15 * (i - 1) >= cut THEN a[i]
                 ELSE (a[i] \div 2^(cut % 15)) * 2^(cut % 15)]
      up == /\ Bit(a, cut) = 1
            /\ (Bit(a, cut + 1) = 1 \/ \E i \in 1..(cut - 1) : Bit(a, i) = 1)
      raised == Add(kept, Shl(<<1>>, cut))
  IN IF top = 0 THEN <<>>
     ELSE IF cut <= 0 THEN SubSeq(a, 1, top)
     ELSE IF up THEN SubSeq(raised, 1, IF raised[top + 1] = 0 THEN top ELSE top + 1)
     ELSE SubSeq(kept, 1, top)

\* quotient and remainder of a by a whole number d below 2^15
RECURSIVE DivSmall(_, _)
DivSmall(a, d) ==
  IF a = <<>>
  THEN [q |-> <<>>, r |-> 0]
  ELSE LET hi == DivSmall(Tail(a), d)
           cur == hi.r * 32768 + Head(a)
       IN [q |-> <<cur \div d>> \o hi.q, r |-> cur % d]

\* fixed.ts: refillRate = config.limit / config.windowMs: the quotient is
\* taken down to two units and a bit that tells whether a remainder is left
\* is put below it, which rounds as the exact quotient does
RefillRate(limit, windowMs) ==
  LET d == DivSmall(Shl(<<limit>>, 74), windowMs)
  IN Round53(MulSmall(d.q, 2, IF d.r = 0 THEN 0 ELSE 1))

\* the least whole number k with x <= y * k, given y * lo < x <= y * hi
RECURSIVE CeilExact(_, _, _, _)
CeilExact(x, y, lo, hi) ==
  IF hi = lo + 1 THEN hi
  ELSE LET mid == (lo + hi) \div 2
       IN IF Less(MulSmall(y, mid, 0), x)
          THEN CeilExact(x, y, mid, hi)
          ELSE CeilExact(x, y, lo, mid)

\* Math.ceil(x / y) for doubles x > 0 and y > 0 with x / y <= most: k is
\* the ceiling of the exact quotient; the double x / y is the whole number
\* k - 1 when the exact quotient lies within half a step of the doubles
\* above k - 1, and its ceiling is k otherwise
CeilQuotient(x, y, most) ==
  LET k == CeilExact(x, y, 0, most)
      m == k - 1
  IN IF m >= 1 /\ ~Less(y, Shl(Sub(x, MulSmall(y, m, 0)), 54 - BitLen(m)))
     THEN m
     ELSE k

\* a whole number below 2^15 as a double
Double(n) == IF n = 0 THEN <<>> ELSE <<0, 0, 0, 0, 0, n>>

\* Math.floor of a double below 2^15
Floor(a) == IF Len(a) < 6 THEN 0 ELSE a[6]

TokenBucketCheckDouble(k, config) ==
  LET record == StoreGet(k, now)
      maxTokens == Double(config.limit)
      refillRate == RefillRate(config.limit, config.windowMs)
  IN IF ~record.present
     THEN /\ cache' = StoreSet(cache, k,
                        Record(0, now, now, <<>>, Double(config.limit - 1), 0), now)
          /\ last' = Result("token-bucket", TRUE, config.limit - 1, config.limit, 0, "",
                            FALSE, <<>>)
     ELSE LET tokensToAdd == Round53(MulSmall(refillRate, now - record.lastRequest, 0))
              sum == Round53(Add(record.tokens, tokensToAdd))
              tokens == IF Less(maxTokens, sum) THEN maxTokens ELSE sum
          IN IF ~Less(tokens, Double(1))
             THEN LET left == Round53(Sub(tokens, Double(1)))
                  IN /\ cache' = StoreSet(cache, k,
                                   [record EXCEPT !.tokens = left, !.lastRequest = now,
                                                  !.count = @ + 1], now)
                     /\ last' = Result("token-bucket", TRUE, Floor(left), config.limit, 0,
                                       "", TRUE, tokens)
             ELSE /\ cache' = StoreSet(cache, k,
                                [record EXCEPT !.tokens = tokens, !.lastRequest = now], now)
                  /\ last' = Result("token-bucket", FALSE, 0, config.limit,
                                    CeilQuotient(Round53(Sub(Double(1), tokens)), refillRate,
                                                 config.windowMs + 1),
                                    "RATE_LIMITED", TRUE, tokens)

\* ------------------------------------------------------------------------
\* Leaky bucket
\* ------------------------------------------------------------------------
\* a bucket that never leaks
LeakyNewLevelNoLeak(rec, t, limit, windowMs) == Max2(0, rec.count)

\* leaky.ts: Math.max(0, record.count - timeElapsed * outflowRate)
LeakyNewLevel(rec, t, limit, windowMs) ==
  Max2(0, rec.count - Refill(t - rec.lastRequest, limit, windowMs))

\* leaky.ts: Math.ceil((newLevel - bucketSize + 1) / outflowRate)
LeakyRetry(newLevel, limit, windowMs) ==
  CeilDiv((newLevel - FP(limit) + FP(1)) * windowMs, Scale * limit)

LeakyBucketCheck(k, config) ==
  LET record == StoreGet(k, now)
      bucketSize == config.limit
      windowMs == config.windowMs
  IN IF ~record.present
     THEN /\ cache' = StoreSet(cache, k, Record(FP(1), now, now, <<>>, 0, 0), now)
          /\ last' = Result("leaky-bucket", TRUE, bucketSize - 1, bucketSize, 0, "", FALSE, 0)
     ELSE LET newLevel == LeakyNewLevel(record, now, bucketSize, windowMs)
          IN IF newLevel < FP(bucketSize)
             THEN /\ cache' = StoreSet(cache, k,
                                [record EXCEPT !.count = newLevel + FP(1), !.lastRequest = now],
                                now)
                  /\ last' = Result("leaky-bucket", TRUE,
                                    (FP(bucketSize) - (newLevel + FP(1))) \div Scale,
                                    bucketSize, 0, "", TRUE, record.count)
             ELSE /\ cache' = StoreSet(cache, k, [record EXCEPT !.lastRequest = now], now)
                  /\ last' = Result("leaky-bucket", FALSE, 0, bucketSize,
                                    LeakyRetry(newLevel, bucketSize, windowMs),
                                    "RATE_LIMITED", TRUE, record.count)

\* ------------------------------------------------------------------------
\* Adaptive
\* ------------------------------------------------------------------------
\* adaptive.ts: requestRatePerSecond = (requestCount / windowMs) * 1000
\* compared with a threshold
RateAbove(requestCount, windowMs, threshold) == requestCount * 1000 > threshold * windowMs

\* adaptive.ts: escalationLevel
EscalationLevel(requestCount, windowMs, th) ==
  IF RateAbove(requestCount, windowMs, th.extreme) THEN "extreme"
  ELSE IF RateAbove(requestCount, windowMs, th.high) THEN "high"
  ELSE IF RateAbove(requestCount, windowMs, th.elevated) THEN "elevated"
  ELSE "normal"

\* the reduction of the elevated tier applied to the high tier as well
DynamicLimitHighHalved(baseLimit, level) ==
  CASE level = "extreme" -> baseLimit \div 10
    [] level = "high" -> baseLimit \div 2
    [] level = "elevated" -> baseLimit \div 2
    [] OTHER -> baseLimit

\* adaptive.ts: dynamicLimit
DynamicLimit(baseLimit, level) ==
  CASE level = "extreme" -> baseLimit \div 10
    [] level = "high" -> baseLimit \div 4
    [] level = "elevated" -> baseLimit \div 2
    [] OTHER -> baseLimit

\* adaptive.ts: requestCount > dynamicLimit
AdaptiveOverLimit(requestCount, dynamicLimit) == requestCount > dynamicLimit

\* adaptive.ts: escalationLevel !== 'normal' && (!record.ddosScore || record.ddosScore < 1)
IsEscalation(level, rec) == level # "normal" /\ rec.ddosScore < 1

AdaptiveEnabledCheck(k, config) ==
  LET record == StoreGet(k, now)
      baseLimit == config.limit
      windowMs == config.windowMs
  IN IF ~record.present
     THEN /\ cache' = StoreSet(cache, k, Record(FP(1), now, now, <<now>>, 0, 0), now)
          /\ last' = Result("adaptive", TRUE, baseLimit - 1, baseLimit, 0, "", FALSE, 0)
     ELSE LET stored == Append(record.history, now)
              recentHistory == InWindow(stored, now, windowMs)
              requestCount == Len(recentHistory)
              level == EscalationLevel(requestCount, windowMs, config.adaptive)
              dynamicLimit == DynamicLimit(baseLimit, level)
              rec == [record EXCEPT !.history = stored, !.count = FP(requestCount),
                                    !.lastRequest = now]
              isEscalation == IsEscalation(level, rec)
          IN IF AdaptiveOverLimit(requestCount, dynamicLimit)
             THEN /\ cache' = StoreSet(cache, k,
                                IF isEscalation THEN [rec EXCEPT !.ddosScore = 1] ELSE rec, now)
                  /\ last' = [Result("adaptive", FALSE, 0, dynamicLimit,
                                     IF dynamicLimit = 0 THEN 0
                                     ELSE CeilDiv(windowMs, dynamicLimit),
                                     IF isEscalation THEN "RATE_LIMIT_ADAPTIVE_ESCALATION"
                                     ELSE "RATE_LIMITED", TRUE, FP(requestCount))
                              EXCEPT !.level = level, !.retryFinite = (dynamicLimit # 0)]
             ELSE /\ cache' = StoreSet(cache, k, rec, now)
                  /\ last' = [Result("adaptive", TRUE, Max2(0, dynamicLimit - requestCount),
                                     dynamicLimit, 0, "", TRUE, FP(requestCount))
                              EXCEPT !.level = level]

\* adaptive.ts: falls back to the fixed window when adaptive is not enabled
AdaptiveStrategyCheck(k, config) ==
  IF ~config.adaptive.enabled THEN FixedWindowCheck(k, config) ELSE AdaptiveEnabledCheck(k, config)

\* ------------------------------------------------------------------------
\* DDoSProtection
\* ------------------------------------------------------------------------
\* constructor: config.ddosPrevention?.requestRateThreshold || 20
RequestRateThreshold ==
  IF scn.ddos.requestRateThreshold = 0 THEN 20 ELSE scn.ddos.requestRateThreshold

\* constructor: config.ddosPrevention?.burstThreshold || 10
BurstThreshold == IF scn.ddos.burstThreshold = 0 THEN 10 ELSE scn.ddos.burstThreshold

\* constructor: config.ddosPrevention?.banDurationMs || 600000
BanDurationMs == IF scn.ddos.banDurationMs = 0 THEN 600000 ELSE scn.ddos.banDurationMs

\* constructor: config.windowMs || 60000
AnalyzerWindowMs == IF scn.windowMs = 0 THEN 60000 ELSE scn.windowMs

\* key.includes(':') ? key.substring(0, key.indexOf(':')) : key
RECURSIVE IpOf(_)
IpOf(key) ==
  IF key = <<>> \/ Head(key) = ":" THEN <<>> ELSE <<Head(key)>> \o IpOf(Tail(key))

\* a ban that still holds at its expiry time
BlacklistedAtInclusive(bl, ip, t) == bl[ip] # 0 /\ bl[ip] >= t

\* isBlacklisted: the answer; an ip without entry maps to 0 (!expirationTime)
BlacklistedAt(bl, ip, t) == bl[ip] # 0 /\ bl[ip] > t

\* isBlacklisted: the map after the call (an expired entry is deleted)
BlacklistAfterLookup(bl, ip, t) ==
  IF bl[ip] # 0 /\ ~(bl[ip] > t) THEN [bl EXCEPT ![ip] = 0] ELSE bl

\* a ban of twice the configured duration
BanExpiryDoubled(t) == t + 2 * BanDurationMs

\* this.blacklist.set(ip, now + this.banDurationMs)
BanExpiry(t) == t + BanDurationMs

\* Scores are kept exactly.  A score is base/1000 - (dev/5) * sqrt(D)/S where
\* base is in thousandths and D, S come from the interval statistics:
\* stdDev/avgInterval = sqrt(n*sum(x^2) - sum(x)^2) / sum(x) = sqrt(D)/S.
RECURSIVE Intervals(_)
Intervals(h) ==
  IF Len(h) < 2 THEN <<>> ELSE <<h[2] - h[1]>> \o Intervals(Tail(h))

RECURSIVE SeqSum(_)
SeqSum(xs) == IF xs = <<>> THEN 0 ELSE Head(xs) + SeqSum(Tail(xs))

RECURSIVE SumSquares(_)
SumSquares(xs) == IF xs = <<>> THEN 0 ELSE Head(xs) * Head(xs) + SumSquares(Tail(xs))

\* recentHistory.slice().sort((a, b) => a - b), by insertion
RECURSIVE Insert(_, _)
Insert(x, sorted) ==
  IF sorted = <<>> THEN <<x>>
  ELSE IF x < Head(sorted) THEN <<x>> \o sorted
       ELSE <<Head(sorted)>> \o Insert(x, Tail(sorted))

RECURSIVE Sorted(_)
Sorted(h) == IF h = <<>> THEN <<>> ELSE Insert(h[Len(h)], Sorted(SubSeq(h, 1, Len(h) - 1)))

\* score value > theta/1000, for score = [base, D, S]
ScoreGT(sc, theta) ==
  LET m == (sc.base - theta) \div 5
  IN /\ sc.base > theta
     /\ 1600 * sc.D < m * m * sc.S * sc.S

\* score value >= theta/1000 (theta and base multiples of 5)
ScoreGE(sc, theta) ==
  LET m == (sc.base - theta) \div 5
  IN /\ sc.base >= theta
     /\ 1600 * sc.D <= m * m * sc.S * sc.S

\* parseFloat(threatScore.toFixed(2)), in hundredths
ToFixed2(sc) ==
  CHOOSE k \in 0..100 : ScoreGE(sc, 10 * k - 5) /\ ~ScoreGE(sc, 10 * k + 5)

\* Tier 1: Math.min(0.4, (requestRate / threshold) * 0.4) when the rate is
\* above the threshold, in thousandths
RateScore(historyLength) ==
  IF historyLength * 1000 > RequestRateThreshold * AnalyzerWindowMs
  THEN Min2(400, (historyLength * 1000 * 400) \div (RequestRateThreshold * AnalyzerWindowMs))
  ELSE 0

\* Tier 2: Math.min(0.3, (lastSecondRequests / burstThreshold) * 0.3)
BurstScore(recentHistory, t) ==
  LET lastSecondRequests == Len(FilterSince(recentHistory, t - 1000))
  IN IF lastSecondRequests > BurstThreshold
     THEN Min2(300, (lastSecondRequests * 300) \div BurstThreshold)
     ELSE 0

\* Tier 3: the interval statistics [n, S, D] of the sorted history
IntervalStats(recentHistory) ==
  LET xs == Intervals(Sorted(recentHistory))
  IN [n |-> Len(xs), S |-> SeqSum(xs), D |-> Len(xs) * SumSquares(xs) - SeqSum(xs) * SeqSum(xs)]

\* Tier 3: intervalConsistency > 0.7, i.e. stdDev/avgInterval < 0.3
Consistent(st) == 100 * st.D < 9 * st.S * st.S

\* Tier 4: a user-agent together with accept-language or accept is missing
HeaderScore(headersOk) == IF headersOk THEN 0 ELSE 100

\* Tier 1: the early exit nested in the rate branch,
\* requestRate > threshold and requestRate < threshold * 0.5
RateEarlyExit(historyLength) ==
  /\ historyLength * 1000 > RequestRateThreshold * AnalyzerWindowMs
  /\ 2 * historyLength * 1000 < RequestRateThreshold * AnalyzerWindowMs

\* threatScore is a double: the sign of the rounding error of the sum of
\* the tier scores 0.4, 0.3, 1 * 0.2 and 0.1, added in this order (binary64,
\* round to nearest even: 0.4 + 0.2 is 0.6000000000000001, 0.7 + 0.1 is
\* 0.7999999999999999, 0.7 + 0.2 is 0.8999999999999999, the other sums are
\* the doubles of their decimals). With intervals that are not all equal
\* the sum is no multiple of 0.1 and the error decides no comparison.
DoubleError(rate, burst, even, hdr) ==
  IF even
  THEN IF rate /\ burst THEN -1 ELSE IF rate THEN 1 ELSE 0
  ELSE IF rate /\ burst /\ hdr THEN -1 ELSE 0

\* the threat score of a history, tiers 1 to 4
ThreatScore(recentHistory, t, headersOk) ==
  LET early == RateScore(Len(recentHistory)) + BurstScore(recentHistory, t)
      st == IntervalStats(recentHistory)
      tier3 == early > 150 /\ st.n > 10 /\ st.S > 0 /\ Consistent(st)
      err == DoubleError(RateScore(Len(recentHistory)) > 0, BurstScore(recentHistory, t) > 0,
                         tier3 /\ st.D = 0, ~headersOk)
  IN IF tier3
     THEN [base |-> early + 200 + HeaderScore(headersOk), D |-> st.D, S |-> st.S,
           err |-> err]
     ELSE [base |-> early + HeaderScore(headersOk), D |-> 0, S |-> 1, err |-> err]

\* threatScore > theta/1000 on the double
Above(sc, theta) == ScoreGT(sc, theta) \/ (sc.err > 0 /\ ScoreGE(sc, theta))

\* the threat level of a score
ThreatLevel(sc) ==
  IF Above(sc, 800) THEN "critical"
  ELSE IF Above(sc, 600) THEN "high"
  ELSE IF Above(sc, 400) THEN "medium"
  ELSE IF Above(sc, 200) THEN "low"
  ELSE "none"

NoThreat ==
  [valid |-> FALSE, key |-> <<>>, t |-> 0, headersOk |-> TRUE, stamp |-> 0,
   fast |-> FALSE, isThreat |-> FALSE, level |-> "none", score |-> 0, banDuration |-> 0,
   entry |-> 0, entryAfter |-> 0, storeRead |-> FALSE]

\* the value analyze returns (score in hundredths, banDuration 0 = undefined),
\* tagged with its inputs; the stored records change only with a check or
\* with the clock, so clock value and check count identify the store content.
\* entry and entryAfter are the blacklist expiry of the ip before and after
\* the call (0 = no entry), storeRead says whether the call read the store.
Threat(k, headersOk, fast, isThreat, level, score, banDuration) ==
  [valid |-> TRUE, key |-> k, t |-> now, headersOk |-> headersOk, stamp |-> nChecks,
   fast |-> fast, isThreat |-> isThreat, level |-> level, score |-> score,
   banDuration |-> banDuration, entry |-> 0, entryAfter |-> 0, storeRead |-> FALSE]

\* a fast path that reports a blacklisted ip one level lower
KnownThreatHigh(k, headersOk) == Threat(k, headersOk, TRUE, TRUE, "high", 100, BanDurationMs)

\* analyze: the answer of the fast path for a blacklisted ip
KnownThreat(k, headersOk) == Threat(k, headersOk, TRUE, TRUE, "critical", 100, BanDurationMs)

\* ------------------------------------------------------------------------
\* Steps
\* ------------------------------------------------------------------------
\* time of the latest check (-1 before the first)
LastArrival == IF arrivals = <<>> THEN -1 ELSE arrivals[Len(arrivals)]

\* paced traffic is over once its checks are made
TrafficOver == scn.paced => nChecks = scn.maxChecks

\* paced traffic makes at most one check per clock value
CanCheck ==
  /\ nChecks < scn.maxChecks
  /\ scn.paced => LastArrival < now

\* bookkeeping of a strategy check: counters and history variables
Checked ==
  /\ nChecks' = nChecks + 1
  /\ arrivals' = Append(arrivals, now)
  /\ prev' = last
  /\ IF arrivals = <<>> \/ now - win.first > scn.windowMs
     THEN win' = [first |-> now, n |-> 1]
     ELSE win' = [win EXCEPT !.n = @ + 1]
  /\ degraded' = IF last'.level = "normal" THEN 0
                 ELSE IF ~last'.passed THEN degraded + 1 ELSE degraded
  /\ UNCHANGED <<scn, now, nAdv, nProbes, blacklist, threat, prevThreat, blq, critAt,
                 orchVars, storeVars,
                 flightVars>>

FixedCheck ==
  /\ scn.strategy = "fixed-window"
  /\ CanCheck
  /\ FixedWindowCheck(scn.key, scn)
  /\ Checked

SlidingCheck ==
  /\ scn.strategy = "sliding-window"
  /\ CanCheck
  /\ SlidingWindowCheck(scn.key, scn)
  /\ Checked

TokenCheck ==
  /\ scn.strategy = "token-bucket"
  /\ CanCheck
  /\ TokenBucketCheck(scn.key, scn)
  /\ Checked

LeakyCheck ==
  /\ scn.strategy = "leaky-bucket"
  /\ CanCheck
  /\ LeakyBucketCheck(scn.key, scn)
  /\ Checked

TokenCheckDouble ==
  /\ scn.strategy = "token-bucket"
  /\ CanCheck
  /\ TokenBucketCheckDouble(scn.key, scn)
  /\ Checked

AdaptiveCheck ==
  /\ scn.strategy = "adaptive"
  /\ CanCheck
  /\ AdaptiveStrategyCheck(scn.key, scn)
  /\ Checked

\* the keys the analyzer of a run is asked about: the key the checks are
\* made on and, in the runs that ask by ip, the bare ip of that key
AnalyzerKeys(config) ==
  IF config.byIp THEN {config.key, IpOf(config.key)} ELSE {config.key}

\* DDoSProtection.analyze(key, context, store) of an analyzer whose blacklist
\* is bl: the value returned and the blacklist after the call
Analysis(k, headersOk, bl) ==
  LET ip == IpOf(k)
      looked == BlacklistAfterLookup(bl, ip, now)
      record == StoreGet(k, now)
      recentHistory == FilterSince(record.history, now - AnalyzerWindowMs)
      historyLength == Len(recentHistory)
      sc == ThreatScore(recentHistory, now, headersOk)
      level == ThreatLevel(sc)
      a == IF ~scn.ddos.enabled
           THEN [threat |-> Threat(k, headersOk, FALSE, FALSE, "none", 0, 0),
                 blacklist |-> bl, read |-> FALSE]
           ELSE IF BlacklistedAt(bl, ip, now)
           THEN [threat |-> KnownThreat(k, headersOk), blacklist |-> bl, read |-> FALSE]
           ELSE IF ~record.present \/ historyLength < 5
           THEN [threat |-> Threat(k, headersOk, FALSE, FALSE, "none", 0, 0),
                 blacklist |-> looked, read |-> TRUE]
           ELSE IF RateEarlyExit(historyLength)
           THEN [threat |-> Threat(k, headersOk, FALSE, FALSE, "none",
                                   RateScore(historyLength) \div 10, 0),
                 blacklist |-> looked, read |-> TRUE]
           ELSE [threat |-> Threat(k, headersOk, FALSE, level \notin {"none", "low"}, level,
                                   ToFixed2(sc),
                                   IF level = "critical" THEN BanDurationMs ELSE 0),
                 blacklist |-> IF level = "critical"
                               THEN [looked EXCEPT ![ip] = BanExpiry(now)]
                               ELSE looked,
                 read |-> TRUE]
  IN [threat |-> [a.threat EXCEPT !.entry = bl[ip], !.entryAfter = a.blacklist[ip],
                                  !.storeRead = a.read],
      blacklist |-> a.blacklist]

\* the history variable critAt after an analysis: a classification as
\* critical by scoring is recorded with its time
CritAfter(a) ==
  IF a.threat.level = "critical" /\ ~a.threat.fast
  THEN [critAt EXCEPT ![IpOf(a.threat.key)] = now]
  ELSE critAt

\* analyze raises a TypeError at tier 4, headers['user-agent'] of a request
\* without headers; the tier is reached by every call that scores a history
AnalysisRaises(k, bare, bl) ==
  LET record == StoreGet(k, now)
      historyLength == Len(FilterSince(record.history, now - AnalyzerWindowMs))
  IN /\ scn.ddos.enabled
     /\ ~BlacklistedAt(bl, IpOf(k), now)
     /\ record.present /\ historyLength >= 5
     /\ ~RateEarlyExit(historyLength)
     /\ bare

\* analyze called on the analyzer of the run
Analyze ==
  /\ scn.analyzer
  /\ TrafficOver
  /\ nProbes < MaxProbes
  /\ nProbes' = nProbes + 1
  /\ \E headersOk \in BOOLEAN, k \in AnalyzerKeys(scn) :
       LET a == Analysis(k, headersOk, blacklist)
       IN /\ threat' = a.threat
          /\ blacklist' = a.blacklist
          /\ critAt' = CritAfter(a)
  /\ prevThreat' = threat
  /\ UNCHANGED <<scn, now, cache, last, prev, nChecks, nAdv, arrivals, win, degraded, blq,
                 orchVars, storeVars,
                 flightVars>>

\* DDoSProtection.isBlacklisted(ip)
IsBlacklisted ==
  /\ scn.analyzer
  /\ TrafficOver
  /\ nProbes < MaxProbes
  /\ nProbes' = nProbes + 1
  /\ \E ip \in DOMAIN blacklist :
       /\ blq' = [valid |-> TRUE, ip |-> ip, t |-> now,
                  result |-> BlacklistedAt(blacklist, ip, now),
                  crit |-> critAt[ip],
                  entryAfter |-> BlacklistAfterLookup(blacklist, ip, now)[ip]]
       /\ blacklist' = BlacklistAfterLookup(blacklist, ip, now)
  /\ UNCHANGED <<scn, now, cache, last, prev, nChecks, nAdv, arrivals, win, degraded,
                 threat, prevThreat, critAt, orchVars, storeVars,
                 flightVars>>

\* ttlAutopurge: expired entries are removed as the clock passes their ttl
Purge(c, t) == [k \in DOMAIN c |-> IF Stale(c[k], t) THEN Absent ELSE c[k]]

\* time passes between calls
Advance ==
  /\ nAdv < MaxAdvances
  /\ TrafficOver
  /\ \E d \in scn.delays :
       /\ now' = now + d
       /\ cache' = Purge(cache, now + d)
  /\ nAdv' = nAdv + 1
  /\ UNCHANGED <<scn, last, prev, nChecks, nProbes, arrivals, win, degraded, blacklist,
                 threat, prevThreat, blq, critAt, orchVars, storeVars,
                 flightVars>>

\* paced traffic: the clock moves on to the time of the next request
Pace ==
  /\ scn.paced
  /\ nChecks < scn.maxChecks
  /\ LastArrival = now
  /\ LET d == scn.pace[((nChecks - 1) % Len(scn.pace)) + 1]
     IN /\ now' = now + d
        /\ cache' = Purge(cache, now + d)
  /\ UNCHANGED <<scn, last, prev, nChecks, nAdv, nProbes, arrivals, win, degraded,
                 blacklist, threat, prevThreat, blq, critAt, orchVars, storeVars,
                 flightVars>>

\* ------------------------------------------------------------------------
\* Orchestrator (rateLimit.check and rateLimit.handleFailure of index.ts)
\* ------------------------------------------------------------------------
\* Strings the orchestrator takes apart or puts together are sequences of
\* characters; the empty sequence stands for '', undefined and null, which
\* the code does not tell apart (it tests them with !x and x || y).
\* The configurations explored set no skipFunction, no geoProvider and no
\* custom handler, and keep the default header names; a denied request is
\* followed by handleFailure, as SecurityManager.runSecurityChecks does.  A
\* redis store that answers is modelled by the same key -> record map as the
\* MemoryStore (its runs are shorter than any expiry).
Unknown == <<"u", "n", "k", "n", "o", "w", "n">>

\* an inbound request: the client that sent it, its IP header, the remote
\* address of its connection and of its socket, the value a configured
\* keyGenerator returns for it, its path, the country the shared context
\* holds under 'geo-block:country', and whether it carries a user-agent
\* together with accept-language or accept; bare says that the request
\* object has no headers property at all
Request(client, forwarded, remote, generated, url, country, headersOk) ==
  [client |-> client, headers |-> [h \in {"x-forwarded-for"} |-> forwarded],
   connection |-> remote, socket |-> <<>>, generated |-> generated, url |-> url,
   country |-> country, headersOk |-> headersOk, bare |-> FALSE]

\* a request object without headers, known by its remote address only
Bare(client, remote) ==
  [Request(client, <<>>, remote, <<>>, <<"/">>, <<>>, FALSE) EXCEPT !.bare = TRUE]

\* value.split(',')[0]
RECURSIVE UntilComma(_)
UntilComma(v) ==
  IF v = <<>> \/ Head(v) = "," THEN <<>> ELSE <<Head(v)>> \o UntilComma(Tail(v))

\* String.prototype.trim: leading and trailing blanks removed
RECURSIVE Trim(_)
Trim(v) ==
  IF v = <<>> THEN <<>>
  ELSE IF Head(v) = " " THEN Trim(Tail(v))
  ELSE IF v[Len(v)] = " " THEN Trim(SubSeq(v, 1, Len(v) - 1))
  ELSE v

\* extractIp: the loop over the configured IP headers; the first header that
\* has a value decides
RECURSIVE FromHeaders(_, _)
FromHeaders(request, ipHeaders) ==
  IF ipHeaders = <<>> \/ request.bare THEN [found |-> FALSE, ip |-> <<>>]
  ELSE IF request.headers[Head(ipHeaders)] # <<>>
       THEN [found |-> TRUE, ip |-> Trim(UntilComma(request.headers[Head(ipHeaders)]))]
       ELSE FromHeaders(request, Tail(ipHeaders))

\* extractIp(request, ipHeaders, useRemoteAddress); <<>> is null (or '')
ExtractIp(request, ipHeaders, useRemoteAddress) ==
  LET h == FromHeaders(request, ipHeaders)
  IN IF h.found THEN h.ip
     ELSE IF useRemoteAddress /\ request.connection # <<>> THEN request.connection
     ELSE IF useRemoteAddress /\ request.socket # <<>> THEN request.socket
     ELSE <<>>

\* index.ts 89-95: the keyGenerator, or extractIp(...) || 'unknown'
Identifier(request, config) ==
  IF config.keyGenerator THEN request.generated
  ELSE LET ip == ExtractIp(request, config.ipHeaders, config.useRemoteAddress)
       IN IF ip # <<>> THEN ip ELSE Unknown

\* String.prototype.includes
Includes(path, part) ==
  \E i \in 1..(Len(path) + 1) :
    i + Len(part) - 1 <= Len(path) /\ SubSeq(path, i, i + Len(part) - 1) = part

\* index.ts 100-107: the first configured resource the path includes
RECURSIVE MatchResource(_, _)
MatchResource(path, resources) ==
  IF resources = <<>> THEN <<>>
  ELSE IF Includes(path, Head(resources).key) THEN Head(resources).key
       ELSE MatchResource(path, Tail(resources))

\* a key that leaves the country out
KeyWithoutCountry(identifier, resource, country) ==
  identifier \o (IF resource # <<>> THEN <<":">> \o resource ELSE <<>>)

\* index.ts 123: the admission key
Key(identifier, resource, country) ==
  identifier \o (IF resource # <<>> THEN <<":">> \o resource ELSE <<>>)
             \o (IF country # <<>> THEN <<":">> \o country ELSE <<>>)

\* config.resources[resource], config.countryLimits[country]: the entries of
\* an override table under a name (none or one)
Overrides(table, name) == { table[i] : i \in { j \in 1..Len(table) : table[j].key = name } }

\* one entry of an override table
Override(name, limit, windowMs) == [key |-> name, limit |-> limit, windowMs |-> windowMs]

\* an override table applied to a config: limit and windowMs of the entry
\* under the name, when the name is present and has an entry
Overridden(config, table, name) ==
  IF name # <<>> /\ Overrides(table, name) # {}
  THEN LET e == CHOOSE x \in Overrides(table, name) : TRUE
       IN [config EXCEPT !.limit = e.limit, !.windowMs = e.windowMs]
  ELSE config

\* the two overrides applied in the opposite order
EffectiveConfigResourceLast(config, resource, country) ==
  Overridden(Overridden(config, config.countryLimits, country), config.resources, resource)

\* index.ts 126-134: the resource override, then the country override
EffectiveConfig(config, resource, country) ==
  Overridden(Overridden(config, config.resources, resource), config.countryLimits, country)

\* an effective config that is the caller's object itself instead of a copy
DeriveAliased(config, resource, country) ==
  [base |-> EffectiveConfig(config, resource, country),
   effective |-> EffectiveConfig(config, resource, country)]

\* index.ts 124-134: effectiveConfig = { ...config } and the assignments to
\* it; the caller's config object after them and the effective config
Derive(config, resource, country) ==
  [base |-> config, effective |-> EffectiveConfig(config, resource, country)]

\* response headers: name -> value, NotSet when the header was not written
HeaderNames ==
  {"X-RateLimit-Limit", "X-RateLimit-Remaining", "X-RateLimit-Reset",
   "RateLimit-Limit", "RateLimit-Remaining", "RateLimit-Reset", "Retry-After"}

NotSet == -1

\* the value of a header computed from an infinite retry
Unbounded == -2

NoHeaders == [n \in HeaderNames |-> NotSet]

\* addRateLimitHeaders(context, result, config) on the headers written so far
AddRateLimitHeaders(h, result, config) ==
  LET remaining == Max2(0, result.remaining)
      hasReset == result.retry # 0 /\ result.retryFinite
      reset == CeilDiv(now + result.retry, 1000)
      legacy == IF config.standardHeaders
                THEN [h EXCEPT !["X-RateLimit-Limit"] = result.limit,
                               !["X-RateLimit-Remaining"] = remaining,
                               !["X-RateLimit-Reset"] = IF hasReset THEN reset ELSE @]
                ELSE h
  IN IF ~config.headers THEN h
     ELSE [legacy EXCEPT !["RateLimit-Limit"] = result.limit,
                         !["RateLimit-Remaining"] = remaining,
                         !["RateLimit-Reset"] = IF hasReset THEN reset ELSE @]

\* rateLimit.handleFailure with no custom handler, on a response not yet
\* sent: the headers once more, then Retry-After when result.retry is set
HandleFailure(h, hasResult, result, config) ==
  LET again == IF config.headers /\ hasResult THEN AddRateLimitHeaders(h, result, config)
               ELSE h
  IN IF hasResult /\ result.retry # 0
     THEN [again EXCEPT !["Retry-After"] = IF result.retryFinite
                                           THEN CeilDiv(result.retry, 1000)
                                           ELSE Unbounded]
     ELSE again

\* createStrategy(config).check(key, context, config, store)
StrategyCheck(k, config) ==
  CASE config.strategy = "sliding-window" -> SlidingWindowCheck(k, config)
    [] config.strategy = "token-bucket" -> TokenBucketCheck(k, config)
    [] config.strategy = "leaky-bucket" -> LeakyBucketCheck(k, config)
    [] config.strategy = "adaptive" -> AdaptiveStrategyCheck(k, config)
    [] OTHER -> FixedWindowCheck(k, config)

\* what the orchestrator did with a request: its path, the components of the key, the
\* key, the limit and windowMs handed on, the outcome returned (error names
\* an exception caught by the handler), whether a store call failed, whether
\* the analyzer and the strategy were invoked and what the analyzer said, the
\* key's record before and after, and the headers of the response
NoResponse ==
  [valid |-> FALSE, client |-> 0, t |-> 0, url |-> <<>>, identified |-> FALSE,
   identifier |-> <<>>,
   resource |-> <<>>, country |-> <<>>, key |-> <<>>, limit |-> 0, windowMs |-> 0,
   passed |-> TRUE, reason |-> "", severity |-> "", error |-> "", storeFailed |-> FALSE,
   analyzed |-> FALSE, isThreat |-> FALSE, level |-> "none", fast |-> FALSE,
   strategyRan |-> FALSE, result |-> NoResult, recordBefore |-> Absent,
   recordAfter |-> Absent, headers |-> NoHeaders]

\* a denial only of the critical level
ThreatDeniesCritical(threatAnalysis) == threatAnalysis.level = "critical"

\* index.ts 167: threatAnalysis.isThreat
ThreatDenies(threatAnalysis) == threatAnalysis.isThreat

\* new DDoSProtection(config): an analyzer with an empty blacklist
NewBlacklist == [ip \in DOMAIN blacklist |-> 0]

\* index.ts 175: severity of a denial by the analyzer
ThreatSeverity(level) == IF level = "critical" THEN "high" ELSE "medium"

\* rateLimit.check(context, config) for one request, followed by
\* rateLimit.handleFailure when the request was denied
Handle(request) ==
  LET createFails == ~moduleStores /\ scn.storage = "redis" /\ (~scn.redis \/ ~backendUp)
      extracted == ExtractIp(request, scn.ipHeaders, scn.useRemoteAddress)
      identifier == Identifier(request, scn)
      resource == MatchResource(request.url, scn.resources)
      country == request.country
      key == Key(identifier, resource, country)
      d == Derive(scn, resource, country)
      effectiveConfig == d.effective
      zero == scn.ddos.requestRateThreshold = 0 /\ scn.ddos.burstThreshold = 0
      a == Analysis(key, request.headersOk, NewBlacklist)
      begun == [NoResponse EXCEPT !.valid = TRUE, !.client = request.client, !.t = now,
                                  !.url = request.url]
      keyed == [begun EXCEPT !.identified = (scn.keyGenerator \/ extracted # <<>>),
                             !.identifier = identifier, !.resource = resource,
                             !.country = country, !.key = key,
                             !.limit = effectiveConfig.limit,
                             !.windowMs = effectiveConfig.windowMs,
                             !.storeFailed = StoreDown,
                             !.recordBefore = cache[key], !.recordAfter = cache[key]]
  IN IF createFails
     THEN \* createStore throws; the catch of check answers passed
          /\ resp' = [begun EXCEPT !.error = IF ~scn.redis THEN "configuration"
                                             ELSE "initialization",
                                   !.storeFailed = scn.redis]
          /\ UNCHANGED <<scn, cache, last, moduleStores, served, critAt>>
     ELSE /\ moduleStores' = TRUE
          /\ scn' = d.base
          /\ served' = served \cup {[client |-> request.client, identifier |-> identifier,
                                     resource |-> resource, country |-> country,
                                     key |-> key, identified |-> keyed.identified]}
          /\ IF scn.ddos.enabled /\ zero
             THEN /\ resp' = [keyed EXCEPT !.passed = FALSE,
                                           !.reason = "ddos.protection.triggered",
                                           !.severity = "medium", !.isThreat = TRUE,
                                           !.level = "medium",
                                           !.headers = HandleFailure(NoHeaders, FALSE, NoResult,
                                                                     effectiveConfig)]
                  /\ UNCHANGED <<cache, last, critAt>>
             ELSE IF AnalysisRaises(key, request.bare, NewBlacklist)
             THEN \* the catch of check answers passed
                  /\ resp' = [keyed EXCEPT !.error = "analyzer", !.analyzed = TRUE]
                  /\ UNCHANGED <<cache, last, critAt>>
             ELSE IF scn.ddos.enabled /\ ThreatDenies(a.threat)
             THEN /\ resp' = [keyed EXCEPT !.passed = FALSE,
                                           !.reason = "ddos.protection.triggered",
                                           !.severity = ThreatSeverity(a.threat.level),
                                           !.analyzed = TRUE, !.isThreat = a.threat.isThreat,
                                           !.level = a.threat.level, !.fast = a.threat.fast,
                                           !.headers = HandleFailure(NoHeaders, FALSE, NoResult,
                                                                     effectiveConfig)]
                  /\ critAt' = CritAfter(a)
                  /\ UNCHANGED <<cache, last>>
             ELSE /\ StrategyCheck(key, effectiveConfig)
                  /\ LET result == last'
                         written == AddRateLimitHeaders(NoHeaders, result, scn)
                     IN resp' = [keyed EXCEPT
                                   !.passed = result.passed,
                                   !.reason = IF result.passed THEN "" ELSE result.reason,
                                   !.severity = IF result.passed THEN "" ELSE "low",
                                   !.analyzed = scn.ddos.enabled,
                                   !.isThreat = scn.ddos.enabled /\ a.threat.isThreat,
                                   !.level = IF scn.ddos.enabled THEN a.threat.level ELSE "none",
                                   !.strategyRan = TRUE, !.result = result,
                                   !.recordAfter = cache'[key],
                                   !.headers = IF result.passed THEN written
                                               ELSE HandleFailure(written, TRUE, result,
                                                                  effectiveConfig)]
                  /\ critAt' = critAt

\* one inbound request passes through the module
RateLimitCheck ==
  /\ CanCheck
  /\ \E request \in scn.requests : Handle(request)
  /\ nChecks' = nChecks + 1
  /\ arrivals' = Append(arrivals, now)
  /\ prev' = last
  /\ UNCHANGED <<now, nAdv, nProbes, blacklist, threat, prevThreat, blq, win, degraded,
                 backendUp, supplied, storeVars, flightVars>>

\* the backend of a redis store goes away or comes back
BackendChange ==
  /\ scn.storage = "redis"
  /\ backendUp' = ~backendUp
  /\ UNCHANGED <<scn, now, cache, blacklist, last, prev, threat, prevThreat, blq, nChecks,
                 nAdv, nProbes, arrivals, win, degraded, critAt, moduleStores, resp, served,
                 supplied, storeVars, flightVars>>

\* ------------------------------------------------------------------------
\* Configurations and traffic of the orchestrator runs
\* ------------------------------------------------------------------------
\* keys and overrides: a keyGenerator supplies the identifier, two resources
\* and one country have overrides; the path "/sr" includes both resources
KeyRequests ==
  { Request(1, <<>>, <<>>, g, u, c, TRUE) :
      g \in {<<"a">>, <<"a", ":", "U">>}, u \in {<<"/">>, <<"/", "s", "r">>},
      c \in {<<>>, <<"U">>, <<"V">>} }

KeyScenarios ==
  { [Scenario(st, 2, 10, 20, {}, MaxRequests)
       EXCEPT !.keyGenerator = TRUE,
              !.resources = <<Override(<<"r">>, 1, 20), Override(<<"s">>, 4, 8)>>,
              !.countryLimits = <<Override(<<"U">>, 3, 5)>>,
              !.requests = KeyRequests]
    : st \in {"fixed-window", "sliding-window"} }

\* clients 1 and 2 send nothing an identifier can be derived from, client 3
\* sends an IP header, client 4 has only a remote address
UnidentifiedRequests ==
  { Request(1, <<>>, <<>>, <<>>, <<"/">>, <<>>, TRUE),
    Request(2, <<>>, <<>>, <<>>, <<"/">>, <<>>, TRUE),
    Request(3, <<"b", " ", ",", "c">>, <<"d">>, <<>>, <<"/">>, <<>>, TRUE),
    Request(4, <<>>, <<"d">>, <<>>, <<"/">>, <<>>, TRUE) }

UnidentifiedScenarios ==
  { [Scenario("fixed-window", 1, 10, 20, {}, MaxRequests)
       EXCEPT !.useRemoteAddress = u, !.failBehavior = f, !.requests = UnidentifiedRequests]
    : u \in BOOLEAN, f \in {"open", "closed"} }

\* one client, every combination of the two header switches
HeaderScenarios ==
  { [Scenario(c[1], 1, c[2], 3600000, {c[2]}, MaxRequests)
       EXCEPT !.headers = h, !.standardHeaders = sh,
              !.requests = {Request(1, <<"a">>, <<>>, <<>>, <<"/">>, <<>>, TRUE)}]
    : c \in {<<"fixed-window", 10>>, <<"sliding-window", 10>>, <<"token-bucket", 4>>},
      h \in BOOLEAN, sh \in BOOLEAN }

\* a flood under each of the five strategies: requests with browser headers
\* 10 ms apart, thresholds 5 and 3, a limit the flood does not reach and
\* adaptive thresholds it does not reach either
FloodScenarios ==
  { [Scenario(st, 20, 1000, 3600000, {}, FloodChecks)
       EXCEPT !.ddos = DDoS(5, 3, 30), !.paced = TRUE, !.pace = <<10>>,
              !.adaptive = IF st = "adaptive" THEN Thresholds(100, 200, 300) ELSE NoAdaptive,
              !.requests = {Request(1, <<"a">>, <<>>, <<>>, <<"/">>, <<>>, TRUE)}]
    : st \in {"fixed-window", "sliding-window", "token-bucket", "leaky-bucket",
              "adaptive"} }

\* requests 10 ms apart under DDoS prevention: 8 of them with thresholds 5
\* and 3, with and without browser headers; 14 of them with thresholds 11
\* and 11 followed by one 2000 ms later; the thresholds 0 and 0; and 7 of
\* them against a limit of 5, with or without a headers object, under
\* thresholds that none of them reaches
DDoSScenarios ==
  { [Scenario("fixed-window", 20, 1000, 3600000, {}, 8)
       EXCEPT !.ddos = DDoS(5, 3, 30), !.paced = TRUE, !.pace = <<10>>,
              !.requests = {Request(1, <<"a">>, <<>>, <<>>, <<"/">>, <<>>, ok) :
                              ok \in BOOLEAN}],
    [Scenario("fixed-window", 20, 1000, 3600000, {}, 15)
       EXCEPT !.ddos = DDoS(11, 11, 3000), !.paced = TRUE,
              !.pace = <<10, 10, 10, 10, 10, 10, 10, 10, 10, 10, 10, 10, 10, 2000>>,
              !.requests = {Request(1, <<"a">>, <<>>, <<>>, <<"/">>, <<>>, TRUE)}],
    [Scenario("fixed-window", 2, 10, 20, {}, MaxRequests)
       EXCEPT !.ddos = DDoS(0, 0, 30),
              !.requests = {Request(1, <<"a">>, <<>>, <<>>, <<"/">>, <<>>, TRUE)}],
    [Scenario("fixed-window", 5, 1000, 3600000, {}, BareChecks)
       EXCEPT !.ddos = DDoS(20, 10, 30), !.paced = TRUE, !.pace = <<10>>,
              !.requests = {Request(1, <<"a">>, <<>>, <<>>, <<"/">>, <<>>, TRUE),
                            Bare(1, <<"a">>)}] }
  \cup FloodScenarios

\* a redis store, with and without its connection details
StoreScenarios ==
  { [Scenario("fixed-window", 1, 10, 3600000, {}, MaxRequests)
       EXCEPT !.storage = "redis", !.redis = r, !.failBehavior = f,
              !.requests = {Request(1, <<"a">>, <<>>, <<>>, <<"/">>, <<>>, TRUE)}]
    : r \in BOOLEAN, f \in {"open", "closed"} }

OrchestratorScenarios ==
  KeyScenarios \cup UnidentifiedScenarios \cup HeaderScenarios \cup DDoSScenarios
  \cup StoreScenarios

\* ------------------------------------------------------------------------
\* The stores driven call by call (storage/index.ts MemoryStore,
\* storage/redis.ts RedisStore with the redis server behind it)
\* ------------------------------------------------------------------------
\* A timestamp is held as a JavaScript number or as the decimal string of
\* one: [type, v] with v the number it denotes.
Num(n) == [type |-> "number", v |-> n]

\* n.toString()
Str(n) == [type |-> "string", v |-> n]

\* parseInt(item, 10)
ParseInt(x) == Num(x.v)

\* history.filter(time => time >= startTime)
RECURSIVE Since(_, _)
Since(h, startTime) ==
  IF h = <<>> THEN <<>>
  ELSE IF Head(h).v >= startTime THEN <<Head(h)>> \o Since(Tail(h), startTime)
  ELSE Since(Tail(h), startTime)

\* allItems.map(item => parseInt(item, 10))
RECURSIVE ParseAll(_)
ParseAll(items) ==
  IF items = <<>> THEN <<>> ELSE <<ParseInt(Head(items))>> \o ParseAll(Tail(items))

\* null, as a store returns it
Null ==
  [present |-> FALSE, count |-> 0, firstRequest |-> 0, lastRequest |-> Num(0),
   history |-> <<>>]

\* a RateLimitRecord as a store holds and returns it
JsRecord(count, first, lastReq, history) ==
  [present |-> TRUE, count |-> count, firstRequest |-> first, lastRequest |-> lastReq,
   history |-> history]

\* the keys the store calls are made on
StoreKeys == {"k"}

\* what a store call leaves behind: the store after it, the value it
\* resolves to, and whether it rejected instead
Returns(store, value) == [store |-> store, value |-> value, raised |-> FALSE]

Throws(store) == [store |-> store, value |-> Null, raised |-> TRUE]

\* memoryOptions.ttl of DEFAULT_CONFIG
MemoryTtl == 3600000

\* MemoryStore.cache.get(key): the entry unless its age exceeds the ttl
CacheGet(m, k, t) ==
  IF m[k].rec.present /\ t - m[k].start <= MemoryTtl THEN m[k].rec ELSE Null

\* MemoryStore.cache.set(key, value)
CacheSet(m, k, value, t) == [m EXCEPT ![k] = [rec |-> value, start |-> t]]

\* MemoryStore.get
MemoryGet(m, k, t) == Returns(m, CacheGet(m, k, t))

\* MemoryStore.set
MemorySet(m, k, value, t) == Returns(CacheSet(m, k, value, t), Null)

\* MemoryStore.increment(key) with value = 1
MemoryIncrement(m, k, t) ==
  LET record == CacheGet(m, k, t)
      after == IF ~record.present
               THEN JsRecord(1, t, Num(t), <<Num(t)>>)
               ELSE [record EXCEPT !.count = @ + 1, !.lastRequest = Num(t),
                                   !.history = Append(@, Num(t))]
  IN Returns(CacheSet(m, k, after, t), after)

\* MemoryStore.reset
MemoryReset(m, k) == Returns([m EXCEPT ![k] = [rec |-> Null, start |-> 0]], Null)

\* MemoryStore.addToHistory
MemoryAddToHistory(m, k, timestamp, t) ==
  LET record == CacheGet(m, k, t)
  IN IF record.present
     THEN Returns(CacheSet(m, k, [record EXCEPT !.history = Append(@, Num(timestamp))], t),
                  Null)
     ELSE Returns(m, Null)

\* MemoryStore.getWindowHistory; the value is the history returned
MemoryGetWindowHistory(m, k, startTime, t) ==
  Returns(m, Since(CacheGet(m, k, t).history, startTime))

\* a key of the redis server that never expires
Forever == -1

\* the server holds a key until its expiry time is reached
Live(e, t) == e.exp = Forever \/ t < e.exp

\* GET key: the JSON text stored, parsed by the caller
ServerGet(r, k, t) == IF r.rec[k].val.present /\ Live(r.rec[k], t) THEN r.rec[k].val ELSE Null

\* SET key value EX seconds
ServerSet(r, k, value, t, seconds) ==
  [r EXCEPT !.rec[k] = [val |-> value, exp |-> t + 1000 * seconds]]

\* LRANGE key 0 -1
ServerList(r, k, t) == IF Live(r.list[k], t) THEN r.list[k].items ELSE <<>>

\* RedisStore.get; fail tells which remote call of the method throws (0 = none)
RedisGet(r, k, t, fail) ==
  IF fail = 1 THEN Returns(r, Null) ELSE Returns(r, ServerGet(r, k, t))

\* RedisStore.set: EX is Math.ceil((firstRequest + 3600000 - now) / 1000),
\* or 60 when that is not positive
RedisSet(r, k, value, t, fail) ==
  LET left == value.firstRequest + 3600000 - t
      ttl == IF left > 0 THEN CeilDiv(left, 1000) ELSE 60
  IN IF fail = 1 THEN Returns(r, Null) ELSE Returns(ServerSet(r, k, value, t, ttl), Null)

\* RedisStore.reset: DEL of the record, then DEL of the history list
RedisReset(r, k, fail) ==
  LET first == [r EXCEPT !.rec[k] = [val |-> Null, exp |-> Forever]]
      second == [first EXCEPT !.list[k] = [items |-> <<>>, exp |-> Forever]]
  IN IF fail = 1 THEN Returns(r, Null)
     ELSE IF fail = 2 THEN Returns(first, Null)
     ELSE Returns(second, Null)

\* RedisStore.addToHistory: LPUSH at the head of the list, then EXPIRE 3600
RedisAddToHistory(r, k, timestamp, t, fail) ==
  LET pushed == [r EXCEPT !.list[k] =
                   [items |-> <<Str(timestamp)>> \o ServerList(r, k, t),
                    exp |-> IF Live(r.list[k], t) /\ r.list[k].items # <<>>
                            THEN r.list[k].exp ELSE Forever]]
      expiring == [pushed EXCEPT !.list[k].exp = t + 3600 * 1000]
  IN IF fail = 1 THEN Returns(r, Null)
     ELSE IF fail = 2 THEN Returns(pushed, Null)
     ELSE Returns(expiring, Null)

\* a getWindowHistory that lets the error of the remote call through
RedisGetWindowHistoryUncaught(r, k, startTime, t, fail) ==
  IF fail = 1 THEN Throws(r)
  ELSE Returns(r, Since(ParseAll(ServerList(r, k, t)), startTime))

\* RedisStore.getWindowHistory: LRANGE, parseInt of every item, the filter
RedisGetWindowHistory(r, k, startTime, t, fail) ==
  IF fail = 1 THEN Returns(r, <<>>)
  ELSE Returns(r, Since(ParseAll(ServerList(r, k, t)), startTime))

\* an increment call of the RedisStore that is not in flight
Idle ==
  [pc |-> "idle", key |-> "", t |-> 0, mem |-> Null, held |-> Null, failed |-> FALSE]

AllIdle == \A p \in DOMAIN tasks : tasks[p].pc = "idle"

\* history variable touched: no write yet, a set, a reset, or anything else
Unwritten == [kind |-> "none", t |-> 0]

\* the key was never touched, was reset, or was last touched by a set more
\* than an hour ago (the ttl of the MemoryStore, the longest EX of a set)
Gone(k) ==
  \/ touched[k].kind \in {"none", "reset"}
  \/ touched[k].kind = "set" /\ now - touched[k].t > MemoryTtl

NoReturn ==
  [valid |-> FALSE, op |-> "none", key |-> "", mem |-> Null, red |-> Null,
   memRaised |-> FALSE, redRaised |-> FALSE, failed |-> FALSE, gone |-> FALSE,
   pure |-> TRUE]

\* a call made while no other call is in flight has completed on both
\* stores: m and r are what it left behind on the MemoryStore and on the
\* RedisStore; pure stays true while no remote call has failed, no call has
\* overlapped another and no time long enough for an expiry has passed
Completed(op, k, m, r, fail, kind) ==
  /\ AllIdle
  /\ spent.calls < MaxCalls
  /\ fail # 0 => spent.faults < MaxFaults
  /\ spent' = [spent EXCEPT !.calls = @ + 1,
                            !.faults = IF fail # 0 THEN @ + 1 ELSE @]
  /\ memory' = m.store
  /\ server' = r.store
  /\ ret' = [valid |-> TRUE, op |-> op, key |-> k, mem |-> m.value,
             red |-> r.value, memRaised |-> m.raised, redRaised |-> r.raised,
             failed |-> fail # 0, gone |-> Gone(k), pure |-> ret.pure /\ fail = 0]
  /\ touched' = IF kind = "read" THEN touched
                ELSE [touched EXCEPT ![k] = [kind |-> IF fail = 0 THEN kind ELSE "other",
                                             t |-> now]]
  /\ batch' = [batch EXCEPT !.n = 0]
  /\ UNCHANGED <<now, tasks>>

\* store.get(key)
Get ==
  \E k \in StoreKeys, fail \in 0..1 :
    /\ Completed("get", k, MemoryGet(memory, k, now), RedisGet(server, k, now, fail), fail,
                 "read")
    /\ UNCHANGED <<runVars, orchVars, flightVars>>

\* store.set(key, value), with the record of a window that starts now
Set ==
  \E k \in StoreKeys, value \in {JsRecord(1, now, Num(now), <<Num(now)>>)}, fail \in 0..1 :
    /\ Completed("set", k, MemorySet(memory, k, value, now),
                 RedisSet(server, k, value, now, fail), fail, "set")
    /\ UNCHANGED <<runVars, orchVars, flightVars>>

\* store.reset(key)
Reset ==
  \E k \in StoreKeys, fail \in 0..2 :
    /\ Completed("reset", k, MemoryReset(memory, k), RedisReset(server, k, fail), fail,
                 "reset")
    /\ UNCHANGED <<runVars, orchVars, flightVars>>

\* store.addToHistory(key, Date.now())
AddToHistory ==
  \E k \in StoreKeys, fail \in 0..2 :
    /\ Completed("addToHistory", k, MemoryAddToHistory(memory, k, now, now),
                 RedisAddToHistory(server, k, now, now, fail), fail, "other")
    /\ UNCHANGED <<runVars, orchVars, flightVars>>

\* store.getWindowHistory(key, startTime)
GetWindowHistory ==
  \E k \in StoreKeys, startTime \in {0, now}, fail \in 0..1 :
    /\ Completed("getWindowHistory", k, MemoryGetWindowHistory(memory, k, startTime, now),
                 RedisGetWindowHistory(server, k, startTime, now, fail), fail,
                 "read")
    /\ UNCHANGED <<runVars, orchVars, flightVars>>

\* count and history length of a record (0 for null)
Tally(record) == [count |-> record.count, entries |-> Len(record.history)]

\* store.increment(key) is called: the MemoryStore runs it to its end (it
\* awaits nothing), the RedisStore reads Date.now() and sends EXISTS
IncrementBegin ==
  \E k \in StoreKeys, p \in DOMAIN tasks :
    /\ tasks[p].pc = "idle"
    /\ \A q \in DOMAIN tasks : q < p => tasks[q].pc # "idle"
    /\ ~AllIdle => batch.key = k
    /\ spent.calls < MaxCalls
    /\ spent' = [spent EXCEPT !.calls = @ + 1]
    /\ LET m == MemoryIncrement(memory, k, now)
       IN /\ memory' = m.store
          /\ tasks' = [tasks EXCEPT ![p] = [pc |-> "exists", key |-> k, t |-> now,
                                            mem |-> m.value, held |-> Null,
                                            failed |-> FALSE]]
    /\ batch' = IF AllIdle
                THEN [n |-> 1, key |-> k, clean |-> TRUE,
                      mem |-> Tally(CacheGet(memory, k, now)),
                      red |-> Tally(ServerGet(server, k, now))]
                ELSE [batch EXCEPT !.n = @ + 1]
    /\ ret' = [ret EXCEPT !.pure = @ /\ AllIdle]
    /\ touched' = [touched EXCEPT ![k] = [kind |-> "other", t |-> now]]
    /\ UNCHANGED <<now, server, runVars, orchVars, flightVars>>

\* the increment of task p resolves to value
Resolve(p, value, fails) ==
  /\ tasks' = [tasks EXCEPT ![p] = Idle]
  /\ ret' = [valid |-> TRUE, op |-> "increment", key |-> tasks[p].key,
             mem |-> tasks[p].mem, red |-> value, memRaised |-> FALSE,
             redRaised |-> FALSE, failed |-> tasks[p].failed \/ fails,
             gone |-> FALSE, pure |-> ret.pure /\ ~tasks[p].failed /\ ~fails]
  /\ batch' = [batch EXCEPT !.clean = @ /\ ~tasks[p].failed /\ ~fails]

\* the increment of task p goes on in its catch block
Recover(p) ==
  /\ tasks' = [tasks EXCEPT ![p].pc = "recover", ![p].failed = TRUE]
  /\ batch' = [batch EXCEPT !.clean = FALSE]
  /\ ret' = [ret EXCEPT !.pure = FALSE]
  /\ server' = server

\* RedisStore.increment, one remote call of it: EXISTS, then SET of a new
\* record or EVAL of the script on the stored one; after an error GET and
\* SET of the catch block
IncrementStep ==
  \E p \in DOMAIN tasks, fails \in BOOLEAN :
    LET task == tasks[p]
        k == task.key
        stored == ServerGet(server, k, now)
        fresh == JsRecord(1, task.t, Num(task.t), <<Num(task.t)>>)
        scripted == [stored EXCEPT !.count = @ + 1, !.lastRequest = Str(task.t),
                                   !.history = Append(@, Str(task.t))]
        fallback == IF fails \/ ~stored.present
                    THEN JsRecord(0, now, Num(now), <<>>) ELSE stored
        final == [task.held EXCEPT !.count = @ + 1, !.lastRequest = Num(now),
                                   !.history = Append(@, Num(now))]
    IN /\ task.pc # "idle"
       /\ fails => spent.faults < MaxFaults
       /\ spent' = [spent EXCEPT !.faults = IF fails THEN @ + 1 ELSE @]
       /\ CASE task.pc = "exists" ->
                 IF fails THEN Recover(p)
                 ELSE /\ tasks' = [tasks EXCEPT ![p].pc = IF stored.present THEN "eval"
                                                          ELSE "create"]
                      /\ UNCHANGED <<server, ret, batch>>
            [] task.pc = "create" ->
                 IF fails THEN Recover(p)
                 ELSE /\ server' = ServerSet(server, k, fresh, now, 3600)
                      /\ Resolve(p, fresh, FALSE)
            [] task.pc = "eval" ->
                 IF fails \/ ~stored.present THEN Recover(p)
                 ELSE /\ server' = [server EXCEPT !.rec[k] = [val |-> scripted,
                                                              exp |-> Forever]]
                      /\ Resolve(p, scripted, FALSE)
            [] task.pc = "recover" ->
                 /\ tasks' = [tasks EXCEPT ![p].pc = "store", ![p].held = fallback]
                 /\ UNCHANGED <<server, ret, batch>>
            [] task.pc = "store" ->
                 /\ server' = RedisSet(server, k, final, now, IF fails THEN 1 ELSE 0).store
                 /\ Resolve(p, final, fails)
       /\ UNCHANGED <<now, memory, touched, runVars, orchVars, flightVars>>

\* time passes between the calls: a millisecond, or just over an hour
Tick ==
  \E d \in {1, 3600001} :
    /\ spent.calls < MaxCalls
    /\ spent' = [spent EXCEPT !.calls = @ + 1]
    /\ now' = now + d
    /\ ret' = [ret EXCEPT !.pure = @ /\ d = 1]
    /\ batch' = [batch EXCEPT !.clean = @ /\ d = 1]
    /\ UNCHANGED <<memory, server, tasks, touched, runVars, orchVars, flightVars>>

\* the stores after construction
StoresStart ==
  /\ memory = [k \in StoreKeys |-> [rec |-> Null, start |-> 0]]
  /\ server = [rec |-> [k \in StoreKeys |-> [val |-> Null, exp |-> Forever]],
               list |-> [k \in StoreKeys |-> [items |-> <<>>, exp |-> Forever]]]
  /\ tasks = [p \in 1..MaxCalls |-> Idle]
  /\ ret = NoReturn
  /\ batch = [n |-> 0, key |-> "", clean |-> TRUE, mem |-> Tally(Null), red |-> Tally(Null)]
  /\ touched = [k \in StoreKeys |-> Unwritten]
  /\ spent = [calls |-> 0, faults |-> 0]

StoresNext ==
  \/ Get
  \/ Set
  \/ Reset
  \/ AddToHistory
  \/ GetWindowHistory
  \/ IncrementBegin
  \/ IncrementStep
  \/ Tick

\* ------------------------------------------------------------------------
\* Concurrent requests (index.ts 76-83 with createStore, then the fixed
\* window on a MemoryStore).  A request runs until it awaits: until
\* createStore has called store.init(), until the strategy has called
\* store.get, and from the answer of store.get to its end.
\* ------------------------------------------------------------------------
FlightClients == {"a", "b"}

\* a request that has not arrived: its position, its client, the number of
\* the store instance it works on, the count store.get showed it (0 = no
\* record) and its outcome
NoFlight == [pc |-> "idle", client |-> "", store |-> 0, seen |-> 0, passed |-> TRUE]

\* new MemoryStore(...): no records
NewStore == [c \in FlightClients |-> 0]

\* index.ts 79-81: moduleStores.get(moduleId); without a store createStore
\* constructs one and awaits its init; with a store the request goes on to
\* strategy.check, which calls store.get
Arrive ==
  \E p \in DOMAIN flights, c \in FlightClients :
    /\ flights[p].pc = "idle"
    /\ \A q \in DOMAIN flights : q < p => flights[q].pc # "idle"
    /\ IF registry = 0
       THEN /\ instances' = Append(instances, NewStore)
            /\ flights' = [flights EXCEPT ![p] = [NoFlight EXCEPT !.pc = "init", !.client = c,
                                                   !.store = Len(instances) + 1]]
       ELSE /\ instances' = instances
            /\ flights' = [flights EXCEPT ![p] = [NoFlight EXCEPT !.pc = "count", !.client = c,
                                                   !.store = registry,
                                                   !.seen = instances[registry][c]]]
    /\ UNCHANGED <<registry, now, runVars, orchVars, storeVars>>

\* index.ts 81-82 and 184-185: createStore resolves, the store is registered
\* and strategy.check calls store.get on it
Register ==
  \E p \in DOMAIN flights :
    /\ flights[p].pc = "init"
    /\ registry' = flights[p].store
    /\ flights' = [flights EXCEPT ![p].pc = "count",
                                  ![p].seen = instances[flights[p].store][flights[p].client]]
    /\ UNCHANGED <<instances, now, runVars, orchVars, storeVars>>

\* fixed.ts 49-86: without a record store.set of a record with count 1, else
\* store.increment and the comparison with the limit
Count ==
  \E p \in DOMAIN flights :
    LET f == flights[p]
        count == IF f.seen = 0 THEN 1 ELSE instances[f.store][f.client] + 1
    IN /\ f.pc = "count"
       /\ instances' = [instances EXCEPT ![f.store][f.client] = count]
       /\ flights' = [flights EXCEPT ![p].pc = "done",
                                     ![p].passed = (f.seen = 0 \/ count <= scn.limit)]
       /\ UNCHANGED <<registry, now, runVars, orchVars, storeVars>>

\* memory storage, limits 1 and 2
FlightScenarios == { Scenario("fixed-window", l, 10, 20, {}, MaxFlights) : l \in 1..2 }

FlightsStart ==
  /\ instances = <<>>
  /\ registry = 0
  /\ flights = [p \in 1..MaxFlights |-> NoFlight]

FlightsNext == Arrive \/ Register \/ Count

\* the keys of a run: the keys its requests can carry, or the key its checks
\* are made on and, with an analyzer, the keys the analyzer is asked about
Keys(config) ==
  IF config.requests = {}
  THEN IF config.analyzer THEN AnalyzerKeys(config) ELSE {config.key}
  ELSE { Key(Identifier(r, config), MatchResource(r.url, config.resources), r.country) :
           r \in config.requests }

\* the state after construction, for a run drawn from the set S
Start(S) ==
  /\ scn \in S
  /\ now = 0
  /\ cache = [k \in Keys(scn) |-> Absent]
  /\ last = NoResult
  /\ prev = NoResult
  /\ nChecks = 0
  /\ nAdv = 0
  /\ nProbes = 0
  /\ arrivals = <<>>
  /\ win = [first |-> 0, n |-> 0]
  /\ degraded = 0
  /\ blacklist = [ip \in {IpOf(k) : k \in Keys(scn)} |-> 0]
  /\ threat = NoThreat
  /\ prevThreat = NoThreat
  /\ blq = [valid |-> FALSE, ip |-> <<>>, t |-> 0, result |-> FALSE, crit |-> -1,
            entryAfter |-> 0]
  /\ critAt = [ip \in {IpOf(k) : k \in Keys(scn)} |-> -1]
  /\ moduleStores = FALSE
  /\ backendUp = TRUE
  /\ resp = NoResponse
  /\ served = {}
  /\ supplied = scn

Init == Start(Scenarios) /\ StoresStart /\ FlightsStart

Next ==
  \/ FixedCheck
  \/ SlidingCheck
  \/ TokenCheck
  \/ LeakyCheck
  \/ AdaptiveCheck
  \/ Analyze
  \/ IsBlacklisted
  \/ Advance
  \/ Pace

Spec == Init /\ [][Next]_vars

\* the orchestrator runs
OrchInit == Start(OrchestratorScenarios) /\ StoresStart /\ FlightsStart

OrchNext ==
  \/ RateLimitCheck
  \/ BackendChange
  \/ Advance
  \/ Pace

Orchestrator == OrchInit /\ [][OrchNext]_vars

\* the runs of store calls on the two stores
StoresInit == Start({Scenario("fixed-window", 1, 10, 20, {}, MaxCalls)}) /\ StoresStart
              /\ FlightsStart

Stores == StoresInit /\ [][StoresNext]_vars

\* the runs of concurrent requests
FlightsInit == Start(FlightScenarios) /\ StoresStart /\ FlightsStart

Concurrent == FlightsInit /\ [][FlightsNext]_vars

\* the runs of the token bucket in binary64: the rate 3 / 60 = 0.05 is no
\* double, the rate 2 / 16 = 0.125 is one
DoubleScenarios ==
  { Scenario("token-bucket", 3, 60, 120, {1, 18}, MaxChecks),
    Scenario("token-bucket", 2, 16, 32, {1, 7}, MaxChecks) }

DoublesInit == Start(DoubleScenarios) /\ StoresStart /\ FlightsStart

DoublesNext == TokenCheckDouble \/ Advance

Doubles == DoublesInit /\ [][DoublesNext]_vars

\* ------------------------------------------------------------------------
\* Properties
\* ------------------------------------------------------------------------
\* C1: fixed window, limit N >= 1: a check is admitted exactly when it is one
\* of the first N checks made within windowMs of the check that opened the
\* window; the (N+1)th and every further check of that window is denied.
FixedWindowAdmitsFirstN ==
  last.op = "fixed-window" => (last.passed <=> win.n <= scn.limit)

\* a check beyond the (N+1)th of its window has been denied
FixedWindowFurtherDenied ==
  /\ last.op = "fixed-window"
  /\ win.n > scn.limit + 1
  /\ ~last.passed

\* C9: fixed window reset: a check made more than windowMs after the first
\* request of the record is admitted whatever count was stored, leaves a
\* record with count 1 and firstRequest = now, and the window it opens again
\* admits `limit` requests.
FixedWindowResets ==
  /\ (last.op = "fixed-window" /\ last.seq > 1 /\ win.n = 1)
       => /\ last.passed
          /\ last.remaining = scn.limit - 1
          /\ last.t = now
               => /\ cache[scn.key].present
                  /\ cache[scn.key].count = FP(1)
                  /\ cache[scn.key].firstRequest = last.t
  /\ (last.op = "fixed-window" /\ last.seq > win.n /\ win.n <= scn.limit) => last.passed

\* a window was reopened over a stored count above the limit
FixedWindowReopened ==
  /\ last.op = "fixed-window"
  /\ last.seq > 1
  /\ win.n = 1
  /\ last.hadRecord
  /\ last.found > FP(scn.limit)
  /\ last.t = now

\* C10: fixed window with limit 2 and windowMs 1000: of three sequential
\* calls in one window the first two are admitted and the third is denied
\* with 0 < retry <= 1000.
EndToEndThreeCalls ==
  (last.op = "fixed-window" /\ scn.limit = 2 /\ scn.windowMs = 1000 /\ win.n = last.seq)
    => /\ last.seq \in {1, 2} => last.passed
       /\ last.seq = 3 => (~last.passed /\ last.retry > 0 /\ last.retry <= 1000)

\* number of checks of the key made within the last windowMs before t,
\* the check at t included
ArrivalsInWindow(t) ==
  Cardinality({i \in DOMAIN arrivals : arrivals[i] >= t - scn.windowMs /\ arrivals[i] <= t})

\* C2: sliding window: the count of a check is the number of requests of the
\* key made within the last windowMs; the check is admitted exactly when
\* that number is at most `limit`, and a denial carries remaining = 0.
SlidingCountsWindow ==
  last.op = "sliding-window"
    => LET n == ArrivalsInWindow(last.t)
       IN /\ last.passed <=> n <= scn.limit
          /\ last.passed => last.remaining = scn.limit - n
          /\ ~last.passed => last.remaining = 0
          /\ last.t = now
               => /\ cache[scn.key].present
                  /\ cache[scn.key].count = FP(n)
                  /\ Len(cache[scn.key].history) = n

\* the (limit+1)th request of a window was denied while older requests had
\* left the window
SlidingDeniedPastOld ==
  /\ last.op = "sliding-window"
  /\ ~last.passed
  /\ ArrivalsInWindow(last.t) = scn.limit + 1
  /\ Len(arrivals) > scn.limit + 1

TenPerSecond == scn.strategy = "token-bucket" /\ scn.limit = 10 /\ scn.windowMs = 1000

\* the latest two checks: one made at least 100 ms after a denial, and one
\* immediately after it
WaitedThenTwice ==
  /\ TenPerSecond
  /\ last.op = "token-bucket"
  /\ prev.op = "token-bucket"
  /\ prev.afterDenial
  /\ prev.gap >= 100
  /\ last.gap = 0

\* C3 as stated: token bucket with limit 10 and windowMs 1000: after a
\* denial, a wait of at least 100 ms admits exactly one more request: the
\* check after the wait is admitted and the check right after it is denied.
TokenRefillExactlyOne ==
  /\ (TenPerSecond /\ last.op = "token-bucket" /\ last.afterDenial /\ last.gap >= 100)
       => last.passed
  /\ WaitedThenTwice => ~last.passed

\* C3 amended: the check after the wait is admitted; the check right after it
\* is denied exactly when fewer than two tokens had accumulated by the
\* admitted check (a longer wait refills more than one token).
TokenRefillAfterWait ==
  /\ (TenPerSecond /\ last.op = "token-bucket" /\ last.afterDenial /\ last.gap >= 100)
       => last.passed
  /\ WaitedThenTwice => (~last.passed <=> prev.found < FP(2))

\* one request was admitted after the wait and the next one denied
TokenOneRefilled ==
  /\ WaitedThenTwice
  /\ prev.passed
  /\ ~last.passed

\* C4: leaky bucket: a check made more than windowMs/limit after the
\* previous check of the key is never denied, whatever level earlier checks
\* left in the bucket.
LeakySustainedRateAdmitted ==
  (last.op = "leaky-bucket" /\ last.seq > 1 /\ last.gap * scn.limit > scn.windowMs)
    => last.passed

\* a check at the sustained rate was admitted right after a burst had filled
\* the bucket and been denied
LeakyAdmittedAfterBurst ==
  /\ last.op = "leaky-bucket"
  /\ last.gap * scn.limit > scn.windowMs
  /\ last.afterDenial
  /\ last.hadRecord
  /\ last.found >= FP(scn.limit)
  /\ last.passed

\* the limit the claim derives from the request rate of n requests in the
\* window
ClaimedDynamicLimit(n) ==
  IF n * 1000 > scn.adaptive.extreme * scn.windowMs THEN scn.limit \div 10
  ELSE IF n * 1000 > scn.adaptive.high * scn.windowMs THEN scn.limit \div 4
  ELSE IF n * 1000 > scn.adaptive.elevated * scn.windowMs THEN scn.limit \div 2
  ELSE scn.limit

\* the limit of the check follows the claimed thresholds and decides it
FollowsDynamicLimit ==
  LET n == ArrivalsInWindow(last.t)
  IN /\ last.limit = ClaimedDynamicLimit(n)
     /\ ~last.passed <=> n > ClaimedDynamicLimit(n)
     /\ (scn.windowMs = 10000 /\ scn.adaptive.elevated = 3 /\ n >= 50)
          => last.limit < scn.limit

\* C5 as stated: adaptive (enabled): every check is decided by the dynamic
\* limit derived from the request rate of the window.
AdaptiveDynamicLimitAlways ==
  last.op = "adaptive" => FollowsDynamicLimit

\* C5 amended: this holds for every check that finds a record of the key; a
\* check that finds none is admitted with the base limit.
AdaptiveDynamicLimit ==
  /\ (last.op = "adaptive" /\ last.hadRecord) => FollowsDynamicLimit
  /\ (last.op = "adaptive" /\ ~last.hadRecord)
       => (last.passed /\ last.limit = scn.limit /\ last.remaining = scn.limit - 1)

\* 50 requests spread evenly over the 10 s window were met by a reduced limit
AdaptiveSpreadReduced ==
  /\ last.op = "adaptive"
  /\ last.hadRecord
  /\ scn.windowMs = 10000
  /\ scn.adaptive.elevated = 3
  /\ ArrivalsInWindow(last.t) = 50
  /\ last.limit < scn.limit
  /\ ~last.passed

\* C6: adaptive escalation: of the denials at a non-normal escalation level
\* that follow one another without a check at the normal level in between
\* (one episode), the first returns the escalation code and every other one
\* the generic code, as does every denial at the normal level.
AdaptiveEscalatesOncePerEpisode ==
  (last.op = "adaptive" /\ ~last.passed)
    => IF last.level # "normal" /\ degraded = 1
       THEN last.reason = "RATE_LIMIT_ADAPTIVE_ESCALATION"
       ELSE last.reason = "RATE_LIMITED"

\* C7: an ip classified critical at time T is reported blacklisted by every
\* isBlacklisted call in [T, T + banDurationMs) and not blacklisted by every
\* call from T + banDurationMs on, which also removes the entry.
BlacklistLastsBanDuration ==
  blq.valid
    => /\ blq.result <=> (blq.crit >= 0 /\ blq.t < blq.crit + scn.ddos.banDurationMs)
       /\ ~blq.result => blq.entryAfter = 0

\* a lookup exactly banDurationMs after the classification
BlacklistExpiredOnTime ==
  /\ blq.valid
  /\ blq.crit >= 0
  /\ blq.t = blq.crit + scn.ddos.banDurationMs
  /\ ~blq.result

\* the latest two analyze calls had the same key, headers, clock value and
\* stored history
SameAnalyzeInputs ==
  /\ threat.valid
  /\ prevThreat.valid
  /\ threat.key = prevThreat.key
  /\ threat.headersOk = prevThreat.headersOk
  /\ threat.t = prevThreat.t
  /\ threat.stamp = prevThreat.stamp

\* C8 as stated: two analyze calls on the same inputs return the same score
\* and the same level.
AnalyzeIdempotent ==
  SameAnalyzeInputs => (threat.score = prevThreat.score /\ threat.level = prevThreat.level)

\* C8 amended: they return the same level, and the same score unless the
\* first call classified the key critical by scoring: the second call is
\* then answered from the blacklist with score 1.
AnalyzeRepeatable ==
  SameAnalyzeInputs
    => /\ threat.level = prevThreat.level
       /\ \/ threat.score = prevThreat.score
          \/ (prevThreat.level = "critical" /\ ~prevThreat.fast /\ threat.score = 100)

\* a critical classification with a score below 1 was repeated
AnalyzeRepeatedCritical ==
  /\ SameAnalyzeInputs
  /\ prevThreat.level = "critical"
  /\ ~prevThreat.fast
  /\ prevThreat.score < 100
  /\ threat.fast

\* ------------------------------------------------------------------------
\* Orchestrator properties (specification Orchestrator)
\* ------------------------------------------------------------------------
\* C11: with DDoS prevention enabled, the strategy runs only on a request the
\* analyzer was called for and reported no threat on; a request for which a
\* threat is reported is denied with the DDoS reason code, the strategy is
\* not invoked for it and the record of its key is the same after as before.
ThreatDeniedBeforeStrategy ==
  (resp.valid /\ supplied.ddos.enabled /\ resp.error = "") =>
    /\ resp.strategyRan => (resp.analyzed /\ ~resp.isThreat)
    /\ resp.isThreat =>
         /\ ~resp.passed
         /\ resp.reason = "ddos.protection.triggered"
         /\ ~resp.strategyRan
         /\ resp.recordAfter = resp.recordBefore

\* C11 witness: the analyzer reported a threat on a key that has a counter
\* record, and the request was denied
ThreatDeniedOnCountedKey ==
  /\ resp.valid /\ supplied.ddos.enabled
  /\ resp.analyzed /\ resp.isThreat /\ ~resp.passed
  /\ resp.recordBefore.present /\ resp.recordBefore.count > 0

\* C12: once a request of an IP was classified critical at time T, a request
\* of that IP handled at a later time inside [T, T + banDurationMs) is
\* rejected by the blacklist fast path as critical.
BlacklistSharedByRequests ==
  LET T == critAt[IpOf(resp.key)]
  IN (resp.valid /\ supplied.ddos.enabled /\ resp.error = "" /\ T >= 0
      /\ resp.t > T /\ resp.t < T + BanDurationMs) =>
       (~resp.passed /\ resp.fast /\ resp.level = "critical")

\* the components a key is composed of
Triple(x) == <<x.identifier, x.resource, x.country>>

\* the number of components in which two served requests differ
Differences(x, y) ==
  Cardinality({ i \in 1..3 : Triple(x)[i] # Triple(y)[i] })

\* C13: two requests whose (identifier, resource, country) triples differ
\* never get the same admission key.
CountersNeverMerged ==
  \A x, y \in served : Triple(x) # Triple(y) => x.key # y.key

\* C14: requests with identical identifier, resource and country get the
\* same key, and requests that differ in exactly one of the three components
\* get different keys.
KeyComposition ==
  \A x, y \in served :
    /\ Triple(x) = Triple(y) => x.key = y.key
    /\ Differences(x, y) = 1 => x.key # y.key

\* C14 witness: three requests were served of which the second differs from
\* the first in the country only and the third in the resource only
KeyComponentsVaried ==
  \E x, y, z \in served :
    /\ Differences(x, y) = 1 /\ x.country # y.country
    /\ Differences(x, z) = 1 /\ x.resource # z.resource

\* the resource of a path as the claims describe it: the key of the first
\* configured resource that occurs in the path, none when no one does
ClaimedResource(url) ==
  LET table == supplied.resources
      hits == { i \in 1..Len(table) : Includes(url, table[i].key) }
  IN IF hits = {} THEN <<>>
     ELSE table[CHOOSE i \in hits : \A j \in hits : i <= j].key

\* the limit and windowMs the claims prescribe for a request: the country
\* override, else the override of the matched resource, else the base values
ClaimedConfig(url, country) ==
  LET byCountry == { e \in { supplied.countryLimits[i] : i \in 1..Len(supplied.countryLimits) } :
                       e.key = country }
      byResource == { e \in { supplied.resources[i] : i \in 1..Len(supplied.resources) } :
                        e.key = ClaimedResource(url) }
      pick(es) == CHOOSE e \in es : TRUE
  IN IF country # <<>> /\ byCountry # {}
     THEN [limit |-> pick(byCountry).limit, windowMs |-> pick(byCountry).windowMs]
     ELSE IF byResource # {}
     THEN [limit |-> pick(byResource).limit, windowMs |-> pick(byResource).windowMs]
     ELSE [limit |-> supplied.limit, windowMs |-> supplied.windowMs]

\* C15: the limit and windowMs handed to the strategy are the country
\* override when the country has one, otherwise the override of the matched
\* resource, otherwise the base values; the strategy decides with that limit.
EffectiveConfigPriority ==
  (resp.valid /\ resp.strategyRan) =>
    /\ resp.limit = ClaimedConfig(resp.url, resp.country).limit
    /\ resp.windowMs = ClaimedConfig(resp.url, resp.country).windowMs
    /\ resp.result.limit = resp.limit

\* C15 witness: a request to which both a resource override and a country
\* override apply was checked with the values of the country override
CountryOverrideWon ==
  /\ resp.valid /\ resp.strategyRan
  /\ resp.resource = <<"r">> /\ resp.country = <<"U">>
  /\ resp.limit = 3 /\ resp.windowMs = 5

\* C16: the base config keeps the limit and windowMs the caller supplied
\* whatever requests were handled, and a request no override applies to is
\* checked against those values.
BaseConfigUntouched ==
  /\ scn.limit = supplied.limit
  /\ scn.windowMs = supplied.windowMs
  /\ (resp.valid /\ resp.strategyRan
      /\ Overrides(supplied.resources, resp.resource) = {}
      /\ Overrides(supplied.countryLimits, resp.country) = {}) =>
       (resp.result.limit = supplied.limit /\ resp.windowMs = supplied.windowMs)

\* C16 witness: after a request with a country override and one with a
\* resource override, a request without override was checked
BaseUsedAfterOverrides ==
  /\ resp.valid /\ resp.strategyRan
  /\ resp.resource = <<>> /\ resp.country = <<>>
  /\ \E x, y \in served : x.country = <<"U">> /\ y.resource = <<"r">>

\* C17: with headers enabled, the response to every processed request
\* carries limit, remaining and reset under the legacy and under the standard
\* names, and the response to a denial carries Retry-After as well.
ResponseHeadersComplete ==
  (resp.valid /\ resp.error = "" /\ supplied.headers /\ supplied.standardHeaders) =>
    /\ \A n \in HeaderNames \ {"Retry-After"} : resp.headers[n] # NotSet
    /\ ~resp.passed => resp.headers["Retry-After"] # NotSet

\* C18: when a store call fails during a request, the request is admitted
\* when failBehavior is open and denied when it is closed.
FailBehaviorDecides ==
  (resp.valid /\ resp.storeFailed) => (resp.passed <=> supplied.failBehavior = "open")

\* C19: a request no identifier can be derived from is admitted when
\* failBehavior is open and denied with a reason of its own when it is
\* closed; no strategy counts it and no counter record changes with it.
UnidentifiedResolvedByPolicy ==
  (resp.valid /\ resp.error = "" /\ ~resp.identified) =>
    /\ ~resp.strategyRan
    /\ resp.recordAfter = resp.recordBefore
    /\ supplied.failBehavior = "open" => resp.passed
    /\ supplied.failBehavior = "closed" =>
         (~resp.passed /\ resp.reason \notin {"", "RATE_LIMITED", "ddos.protection.triggered"})

\* C20: a rate limiter configured with a remote store but without its
\* connection details never processes a request.
MisconfiguredNeverServes ==
  resp.valid => ~(supplied.storage = "redis" /\ ~supplied.redis)

\* C21: when the remote store cannot be initialized the request is still
\* counted by a strategy, and a key past its limit is denied.
InitFailureFallsBack ==
  (resp.valid /\ resp.error = "initialization") =>
    /\ resp.strategyRan
    /\ resp.recordAfter.present
    /\ Len(arrivals) > supplied.limit => ~resp.passed

SlidingRetryFloor ==
  (last.op = "sliding-window" /\ ~last.passed /\ last.t = now /\ cache[scn.key].present) =>
    /\ last.retry = Max2(1000, SeqMin(cache[scn.key].history) + scn.windowMs - now)
    /\ last.retry >= 1000

\* the rate tier as claimed: min(0.4, (requestRate/threshold)*0.4) whatever
\* the rate, in thousandths
ClaimedRateScore(historyLength) ==
  Min2(400, (historyLength * 1000 * 400) \div (RequestRateThreshold * AnalyzerWindowMs))

\* the score that follows from the claimed rate tier and tiers 2 to 4
ClaimedThreatScore(recentHistory, t, headersOk) ==
  LET early == ClaimedRateScore(Len(recentHistory)) + BurstScore(recentHistory, t)
      st == IntervalStats(recentHistory)
      tier3 == early > 150 /\ st.n > 10 /\ st.S > 0 /\ Consistent(st)
  IN IF tier3
     THEN [base |-> early + 200 + HeaderScore(headersOk), D |-> st.D, S |-> st.S]
     ELSE [base |-> early + HeaderScore(headersOk), D |-> 0, S |-> 1]

\* C27: with at least 5 history entries, a rate below half the threshold
\* gives level none whatever the burst, the intervals and the headers are;
\* any other rate adds min(0.4, (requestRate/threshold)*0.4) to the score.
RateTierAsClaimed ==
  LET recentHistory == FilterSince(StoreGet(threat.key, now).history, now - AnalyzerWindowMs)
      historyLength == Len(recentHistory)
  IN (threat.valid /\ ~threat.fast /\ threat.t = now /\ historyLength >= 5) =>
       IF 2 * historyLength * 1000 < RequestRateThreshold * AnalyzerWindowMs
       THEN threat.level = "none"
       ELSE threat.score = ToFixed2(ClaimedThreatScore(recentHistory, now, threat.headersOk))

\* the level the thresholds give for a returned score (in hundredths)
LevelOf(score) ==
  IF score > 80 THEN "critical"
  ELSE IF score > 60 THEN "high"
  ELSE IF score > 40 THEN "medium"
  ELSE IF score > 20 THEN "low"
  ELSE "none"

\* C28: every result of analyze has a score in [0,1], the level the
\* thresholds give for that score, isThreat exactly for the levels medium,
\* high and critical, and a banDuration exactly for the level critical.
ThreatRecordConsistent ==
  threat.valid =>
    /\ threat.score \in 0..100
    /\ threat.level = LevelOf(threat.score)
    /\ threat.isThreat <=> threat.level \in {"medium", "high", "critical"}
    /\ (threat.banDuration # 0) <=> threat.level = "critical"

\* C29: an ip has a blacklist entry only if an analyze call classified a
\* key of that ip as critical, and the entry expires banDurationMs after that
\* call; an analyze call for any key of an ip with an unexpired entry
\* returns critical, reads no record and leaves the entry as it is.
BlacklistEntriesJustified ==
  /\ \A ip \in DOMAIN blacklist :
       blacklist[ip] # 0 => (critAt[ip] >= 0 /\ blacklist[ip] = critAt[ip] + BanDurationMs)
  /\ (threat.valid /\ threat.entry # 0 /\ threat.t < threat.entry) =>
       /\ threat.level = "critical"
       /\ ~threat.storeRead
       /\ threat.entryAfter = threat.entry

\* the bare ip, which has no record of its own, was reported critical from
\* the entry that the classification of another key of the ip had written
BlacklistAnsweredOtherKey ==
  /\ threat.valid
  /\ threat.key = IpOf(scn.key)
  /\ threat.key # scn.key
  /\ threat.level = "critical"
  /\ threat.entry = critAt[threat.key] + BanDurationMs
  /\ threat.t < threat.entry
  /\ threat.t > critAt[threat.key]

\* C23: no store call rejects, whatever remote call fails; get answers null
\* for a key that was never touched, was reset or has expired, and when its
\* remote call fails; getWindowHistory answers the empty sequence when its
\* remote call fails.
StoreErrorsContained ==
  ret.valid =>
    /\ ~ret.memRaised /\ ~ret.redRaised
    /\ (ret.op = "get" /\ ret.gone) => (ret.mem = Null /\ ret.red = Null)
    /\ (ret.op = "get" /\ ret.failed) => ret.red = Null
    /\ (ret.op = "getWindowHistory" /\ ret.failed) => ret.red = <<>>

\* getWindowHistory failed on a history list that holds entries
HistoryReadFailed ==
  /\ ret.valid
  /\ ret.op = "getWindowHistory"
  /\ ret.failed
  /\ ret.red = <<>>
  /\ ServerList(server, ret.key, now) # <<>>

\* C24: without failures, overlapping calls and expiry, every call returns
\* the same value on the MemoryStore and on the RedisStore.
BackendsAgree == (ret.valid /\ ret.pure) => ret.mem = ret.red

\* C25: when n increment calls have run concurrently on one key, without
\* failures, the count is n higher than before and the history n entries
\* longer, on the MemoryStore and on the RedisStore.
IncrementsNotLost ==
  (AllIdle /\ batch.n > 0 /\ batch.clean) =>
    /\ Tally(CacheGet(memory, batch.key, now))
         = [count |-> batch.mem.count + batch.n, entries |-> batch.mem.entries + batch.n]
    /\ Tally(ServerGet(server, batch.key, now))
         = [count |-> batch.red.count + batch.n, entries |-> batch.red.entries + batch.n]

\* C26: the requests of one configuration construct one store, all of them
\* work on the registered instance, and no instance other than the
\* registered one holds a count.
OneStorePerConfig ==
  /\ Len(instances) <= 1
  /\ \A p \in DOMAIN flights :
       (flights[p].pc = "done" /\ registry # 0) => flights[p].store = registry
  /\ \A i \in 1..Len(instances) :
       (registry # 0 /\ i # registry) => instances[i] = NewStore

\* C31: leaky bucket: every check of a key that has a record, admitted or
\* denied, stores the level drained by elapsed * outflowRate for the time
\* since the previous check (plus the request itself when it is admitted),
\* so that no drained amount is lost and repeated denied checks cannot
\* postpone admission forever.
LeakyDrainKept ==
  (/\ last.op = "leaky-bucket"
   /\ last.hadRecord
   /\ cache[scn.key].present
   /\ cache[scn.key].lastRequest = last.t)
    => cache[scn.key].count
         = Max2(0, last.found - Refill(last.gap, scn.limit, scn.windowMs))
           + (IF last.passed THEN FP(1) ELSE 0)

\* C32: after a check that read the record of its key, the stored history
\* is in arrival order and holds no timestamp older than the window of the
\* check.
HistoryOrderedAndPruned ==
  LET h == cache[scn.key].history
  IN (/\ last.op # "none"
      /\ last.hadRecord
      /\ cache[scn.key].present
      /\ cache[scn.key].lastRequest = last.t)
       => /\ \A i \in 1..(Len(h) - 1) : h[i] <= h[i + 1]
          /\ \A i \in 1..Len(h) : h[i] >= last.t - scn.windowMs

\* C33: fixed window on one in-process store: however the concurrent checks
\* of a key interleave at their store calls, the checks admitted on that
\* store within the window (the clock does not move during the run) are at
\* most limit.
FixedWindowHoldsInterleaved ==
  \A i \in 1..Len(instances), c \in FlightClients :
    Cardinality({ p \in DOMAIN flights : /\ flights[p].pc = "done"
                                         /\ flights[p].passed
                                         /\ flights[p].store = i
                                         /\ flights[p].client = c }) <= scn.limit

\* C34: under each of the five strategies a flood (requests with browser
\* headers 10 ms apart, above the rate threshold and the burst threshold) is
\* denied with the DDoS reason by the time its last request is answered.
FloodDeniedUnderEveryStrategy ==
  (/\ scn \in FloodScenarios
   /\ nChecks = scn.maxChecks)
    => (~resp.passed /\ resp.reason = "ddos.protection.triggered")

\* C35: fixed window: the check a client makes exactly retry milliseconds
\* after a denial, as the next check of the key, is admitted.
FixedRetrySufficient ==
  (/\ last.op = "fixed-window"
   /\ prev.op = "fixed-window"
   /\ ~prev.passed
   /\ last.seq = prev.seq + 1
   /\ last.gap = prev.retry)
    => last.passed

\* C36: token bucket and leaky bucket: the check a client makes exactly
\* retry milliseconds after a denial, as the next check of the key, is
\* admitted.  The hint leads exactly to the moment at which the level
\* reaches the mark, so the rounding of the doubles decides the check: the
\* formula is settled under the specification Doubles.
BucketRetrySufficient ==
  (/\ last.op \in {"token-bucket", "leaky-bucket"}
   /\ prev.op = last.op
   /\ ~prev.passed
   /\ last.seq = prev.seq + 1
   /\ last.gap = prev.retry)
    => last.passed

\* C37: recovery after silence: under every strategy a check made more
\* than windowMs after the previous check of the key is admitted.
AdmittedAfterSilence ==
  (/\ last.op # "none"
   /\ last.seq > 1
   /\ scn.limit >= 1
   /\ last.gap > scn.windowMs)
    => last.passed

\* C38: the result of every check has 0 <= remaining <= limit, and
\* remaining = 0 on every denial.
RemainingWithinBounds ==
  (last.op # "none" /\ scn.limit >= 1)
    => /\ 0 <= last.remaining
       /\ last.remaining <= last.limit
       /\ ~last.passed => last.remaining = 0

\* C39: every denial carries a finite retry hint of at least 0
\* milliseconds; none computes its hint by a division by zero.
RetryHintWellDefined ==
  (/\ last.op # "none"
   /\ ~last.passed
   /\ scn.limit >= 1
   /\ scn.windowMs >= 1)
    => (last.retryFinite /\ last.retry >= 0)

\* C40: token bucket: the stored level stays within 0..limit; a check of a
\* key with a record is admitted only if the refilled level is at least 1,
\* an admission stores the refilled level less exactly 1, a denial stores
\* the refilled level as it is; the check that creates the record is
\* admitted and leaves limit - 1.
TokenLevelInvariant ==
  LET tokens == cache[scn.key].tokens
  IN (/\ last.op = "token-bucket"
      /\ scn.limit >= 1
      /\ cache[scn.key].present
      /\ cache[scn.key].lastRequest = last.t)
       => /\ 0 <= tokens
          /\ tokens <= FP(scn.limit)
          /\ (last.hadRecord /\ last.passed) => (last.found >= FP(1) /\ tokens = last.found - FP(1))
          /\ (last.hadRecord /\ ~last.passed) => (last.found < FP(1) /\ tokens = last.found)
          /\ ~last.hadRecord => (last.passed /\ tokens = FP(scn.limit) - FP(1))

\* a denial left a partly refilled bucket, short of one token, as it was
TokenDenialKeptLevel ==
  /\ last.op = "token-bucket"
  /\ last.hadRecord
  /\ ~last.passed
  /\ last.found > 0
  /\ last.found < FP(1)
  /\ cache[scn.key].present
  /\ cache[scn.key].lastRequest = last.t
  /\ cache[scn.key].tokens = last.found

====
